---------------------------- MODULE Spec2Model ----------------------------
(***************************************************************************)
(* Event routing and focus navigation of webgl-gui (src/src/gui.rs) over   *)
(* widget trees laid out by the containers of src/src/widgets.rs, the      *)
(* shape queue of Draw2d (src/src/draw_2d.rs), the event queue and the     *)
(* EventState of the main loop (src/src/main_loop.rs), and the MessageBox  *)
(* and Button of src/src/widgets.rs.                                       *)
(*                                                                         *)
(* Option<T> is a sequence of length at most one: None is <<>> and Some(x) *)
(* is <<x>>.  Points and vectors are pairs <<x, y>>.  A hash map is a      *)
(* function whose domain is its set of keys.  Indices into                 *)
(* ordered_components are 0-based as in the source.  An f64 is a sign, a   *)
(* 53-bit mantissa and an exponent, with the arithmetic of IEEE 754.       *)
(***************************************************************************)
EXTENDS Integers, Sequences, FiniteSets, TLC

VARIABLES
    active_component,     \* Gui.active_component : Option<(i32, WidgetId)>
    last_render,          \* Gui.last_render : Option<RenderedGui>
    pc,                   \* "idle", "loop" (inside handle_events), "returned", "panicked"
    events,               \* the elements of the events slice iterated so far
    ordered_components,   \* the ordered_components argument of the running call
    events_out,           \* local of handle_events
    unhandled_events,     \* local of handle_events
    active_component_id,  \* local of handle_events
    result,               \* Option<GuiEventResult>: what the last call returned
    history,              \* one record per loop iteration of the running call:
                          \* the event, the state it found, what it did
    drawn,                \* Option: the arguments and the locals (min_sizes,
                          \* widget_rects) of the latest Gui::draw
    draw_calls,           \* the Widget::draw calls made by the latest Gui::draw,
                          \* in order, until the next handle_events
    consumed,             \* the calls of update_component and unhandled_events
                          \* on the returned GuiEventResult, in order, each with
                          \* the events it handed over
    triangle_mesh_builder,  \* Draw2d.triangle_mesh_builder: the queued vertices and
                            \* triangles
    draw_2d_call,         \* Option: the latest call of a shape function of Draw2d,
                          \* with the mesh builder it found and whether it panicked
    queued_events,        \* start_main_loop: the events since the latest frame
    event_state,          \* setup_event_callbacks: the shared EventState
    app_calls,            \* the calls of App::handle_event and App::render_frame, in
                          \* order, each with its events and the EventState it was
                          \* made under
    arrivals,             \* the events the listeners were called with, in order
    message_box,          \* Option: a MessageBox (lines, max_lines)
    added_lines,          \* the (line, color) pairs given to add_line, in order
    button_result         \* Option: the latest call of Button::update, by its
                          \* events and the pressed flag of its ButtonResult

vars == <<active_component, last_render, pc, events, ordered_components,
          events_out, unhandled_events, active_component_id, result, history,
          drawn, draw_calls, consumed, triangle_mesh_builder, draw_2d_call,
          queued_events, event_state, app_calls, arrivals,
          message_box, added_lines, button_result>>

\* The state of the Gui session and of the GuiEventResult it returned.
gui_vars == <<active_component, last_render, pc, events, ordered_components,
              events_out, unhandled_events, active_component_id, result, history,
              drawn, draw_calls, consumed>>

\* The state of Draw2d (src/src/draw_2d.rs).
draw_2d_vars == <<triangle_mesh_builder, draw_2d_call>>

\* The state outside the Gui session: no operation of Gui touches it.
\* The state of the main loop (src/src/main_loop.rs).
main_loop_vars == <<queued_events, event_state, app_calls, arrivals>>

\* The state of the application's persistent widgets (src/src/widgets.rs).
widget_vars == <<message_box, added_lines, button_result>>

beyond_gui == <<draw_2d_vars, main_loop_vars, widget_vars>>

\* Largest number of events in one batch handed to handle_events.
MaxBatch == 2

None == <<>>
Some(x) == <<x>>

EmptyMap == <<>>
\* An insert that leaves a second entry, under the key 0.
Insert_also_zero(m, k, v) == (k :> v) @@ (0 :> v) @@ m
Insert(m, k, v) == (k :> v) @@ m

VAdd(a, b) == <<a[1] + b[1], a[2] + b[2]>>
VSub(a, b) == <<a[1] - b[1], a[2] - b[2]>>
Max(a, b) == IF a >= b THEN a ELSE b

\* Rust's `/` and `%` on i32 truncate toward zero.
TruncDiv(a, b) == IF a >= 0 THEN a \div b ELSE -((-a) \div b)
Rem(a, b) == a - b * TruncDiv(a, b)

---------------------------------------------------------------------------
(* Natural numbers of any size: little-endian sequences of limbs in        *)
(* 0 .. LimbBase - 1 with no leading zero limb; zero is <<>>.  Carries are *)
(* found by look-ahead, not by a loop over the limbs.                      *)
LimbBits == 13
LimbBase == 2 ^ LimbBits

SetMax(S) == CHOOSE i \in S : \A j \in S : j <= i
Limb(a, i) == IF i >= 1 /\ i <= Len(a) THEN a[i] ELSE 0

BigNorm(a) == SubSeq(a, 1, SetMax({0} \cup {i \in DOMAIN a : a[i] # 0}))

\* For 0 <= n < 2^31.
BigFromInt(n) ==
    BigNorm(<<n % LimbBase, (n \div LimbBase) % LimbBase, n \div (LimbBase * LimbBase)>>)

\* For a < 2^31.
BigToInt(a) == Limb(a, 1) + LimbBase * Limb(a, 2) + LimbBase * LimbBase * Limb(a, 3)

BigAdd(a, b) ==
    LET n == Max(Len(a), Len(b))
        Carry(i) == IF \E j \in 1 .. i - 1 :
                          /\ Limb(a, j) + Limb(b, j) >= LimbBase
                          /\ \A k \in j + 1 .. i - 1 : Limb(a, k) + Limb(b, k) = LimbBase - 1
                    THEN 1 ELSE 0
    IN  BigNorm([i \in 1 .. n + 1 |-> (Limb(a, i) + Limb(b, i) + Carry(i)) % LimbBase])

\* a - b for a >= b.
BigSub(a, b) ==
    LET Borrow(i) == IF \E j \in 1 .. i - 1 :
                           /\ Limb(a, j) < Limb(b, j)
                           /\ \A k \in j + 1 .. i - 1 : Limb(a, k) = Limb(b, k)
                     THEN 1 ELSE 0
    IN  BigNorm([i \in 1 .. Len(a) |->
                    (Limb(a, i) - Limb(b, i) - Borrow(i) + LimbBase) % LimbBase])

\* -1, 0 or 1 as a < b, a = b or a > b.
BigCmp(a, b) ==
    LET differ == {i \in DOMAIN a : a[i] # Limb(b, i)} IN
    IF Len(a) < Len(b) THEN -1
    ELSE IF Len(a) > Len(b) THEN 1
    ELSE IF differ = {} THEN 0
    ELSE IF a[SetMax(differ)] < b[SetMax(differ)] THEN -1 ELSE 1

\* a * k for one limb k: the limb products, each below 2^26, split into
\* two numbers that are then added.
BigMulLimb(a, k) ==
    BigAdd(BigNorm([i \in DOMAIN a |-> (a[i] * k) % LimbBase]),
           BigNorm([i \in 1 .. Len(a) + 1 |-> (Limb(a, i - 1) * k) \div LimbBase]))

ShiftLimbs(a, n) == IF a = <<>> THEN a ELSE [i \in 1 .. n |-> 0] \o a

\* a * b for a of at most five limbs (a mantissa): the column sums, each
\* below 2^29, split into three numbers that are then added.
BigMul(a, b) ==
    LET Column(c) == Limb(a, 1) * Limb(b, c) + Limb(a, 2) * Limb(b, c - 1)
                     + Limb(a, 3) * Limb(b, c - 2) + Limb(a, 4) * Limb(b, c - 3)
                     + Limb(a, 5) * Limb(b, c - 4)
        cols == [c \in 1 .. Len(a) + Len(b) |-> Column(c)]
        low == BigNorm([c \in DOMAIN cols |-> cols[c] % LimbBase])
        mid == BigNorm([c \in DOMAIN cols |-> (cols[c] \div LimbBase) % LimbBase])
        high == BigNorm([c \in DOMAIN cols |-> cols[c] \div (LimbBase * LimbBase)])
    IN  BigAdd(BigAdd(low, ShiftLimbs(mid, 1)), ShiftLimbs(high, 2))

\* a * 2^n: each limb of the result is the low bits of one limb of a above
\* the high bits of the limb below it, so no carry arises.
BigShl(a, n) ==
    LET limbs == n \div LimbBits
        k == 2 ^ (n % LimbBits)
    IN  BigNorm([i \in 1 .. Len(a) + limbs + 1 |->
                    IF i <= limbs THEN 0
                    ELSE ((Limb(a, i - limbs) * k) % LimbBase)
                         + ((Limb(a, i - limbs - 1) * k) \div LimbBase)])

\* floor(a / 2^n).
BigShr(a, n) ==
    LET limbs == n \div LimbBits
        bits == n % LimbBits
    IN  BigNorm([i \in 1 .. Len(a) - limbs |->
                    (Limb(a, i + limbs) \div 2 ^ bits)
                    + (Limb(a, i + limbs + 1) % 2 ^ bits) * 2 ^ (LimbBits - bits)])

BitLenInt(n) == Cardinality({k \in 0 .. LimbBits - 1 : 2 ^ k <= n})
BigBitLen(a) == IF a = <<>> THEN 0 ELSE LimbBits * (Len(a) - 1) + BitLenInt(a[Len(a)])

BigIsOdd(a) == a # <<>> /\ a[1] % 2 = 1

\* The quotient digit floor(r / b) for r < b * LimbBase, b's top limb being
\* at least LimbBase / 2: q is an estimate from the top limbs that is at
\* most two too large.
RECURSIVE QuotientDigit(_, _, _)
QuotientDigit(r, b, q) ==
    IF BigCmp(BigMulLimb(b, q), r) <= 0 THEN q ELSE QuotientDigit(r, b, q - 1)

\* The quotient digit of r by b, from the estimate the top limbs give.
EstimateDigit(r, b) ==
    LET estimate == (Limb(r, Len(b) + 1) * LimbBase + Limb(r, Len(b))) \div b[Len(b)]
    IN  QuotientDigit(r, b, IF estimate < LimbBase THEN estimate ELSE LimbBase - 1)

\* Long division of a by b from limb j of a down, d.q and d.r being the
\* quotient and remainder of the limbs above j.
RECURSIVE BigDivModFrom(_, _, _, _)
\* One step of it: digit is the quotient digit of r2, the remainder so far
\* with limb j of a brought down.
BigDivModStep(a, b, j, q, r2, digit) ==
    IF digit = 0
    THEN BigDivModFrom(a, b, j - 1, [q |-> <<0>> \o q, r |-> r2])
    ELSE BigDivModFrom(a, b, j - 1,
                       [q |-> <<digit>> \o q, r |-> BigSub(r2, BigMulLimb(b, digit))])

BigDivModFrom(a, b, j, d) ==
    IF j = 0 THEN [q |-> BigNorm(d.q), r |-> d.r]
    ELSE LET r2 == BigNorm(<<a[j]>> \o d.r)
         IN  BigDivModStep(a, b, j, d.q, r2, EstimateDigit(r2, b))

\* floor(a / b) and a mod b for b > 0 whose top limb is at least
\* LimbBase / 2; the limbs of a that cannot reach b start as the remainder.
BigDivModScaled(a, b) ==
    LET first == Max(0, Len(a) - Len(b) + 1)
    IN  BigDivModFrom(a, b, first,
                      [q |-> <<>>, r |-> BigNorm(SubSeq(a, first + 1, Len(a)))])

\* The quotient of a by b as 2 * floor(a / b), plus one when the division
\* leaves a remainder (a sticky bit); b > 0 is scaled first so that its top
\* limb is at least LimbBase / 2.
StickyOf(d) == IF d.r = <<>> THEN BigShl(d.q, 1) ELSE BigAdd(BigShl(d.q, 1), <<1>>)
BigDivSticky(a, b) ==
    LET s == LimbBits - BitLenInt(b[Len(b)])
    IN  StickyOf(BigDivModScaled(BigShl(a, s), BigShl(b, s)))

---------------------------------------------------------------------------
(* IEEE 754 binary64 values: [neg, m, e] is (-1)^neg * m * 2^e with m = 0  *)
(* or 2^52 <= m < 2^53.  Exponents stay far from the subnormal and         *)
(* overflow ranges for the sizes and weights of a layout.                  *)
MantBits == 53
F64(neg, m, e) == [neg |-> neg, m |-> m, e |-> e]

\* A mantissa q of MantBits or MantBits + 1 bits brought to MantBits bits;
\* the bit dropped from 2^MantBits is zero.
F64Norm(neg, q, e) ==
    IF BigBitLen(q) > MantBits THEN F64(neg, BigShr(q, 1), e + 1) ELSE F64(neg, q, e)

\* Ties to even: c is the sign of (dropped bits - half a unit of q).
RoundsUp(c, q) == c > 0 \/ (c = 0 /\ BigIsOdd(q))

\* n = q * 2^s + dropped bits, rounded to q or q + 1.
F64RoundTo(neg, n, e, s, q) ==
    F64Norm(neg,
            IF RoundsUp(BigCmp(BigSub(n, BigShl(q, s)), BigShl(<<1>>, s - 1)), q)
            THEN BigAdd(q, <<1>>) ELSE q,
            e + s)

\* The binary64 nearest to (-1)^neg * n * 2^e, ties to even.
F64Round(neg, n, e) ==
    LET bl == BigBitLen(n) IN
    IF n = <<>> THEN F64(neg, <<>>, 0)
    ELSE IF bl <= MantBits THEN F64(neg, BigShl(n, MantBits - bl), e - (MantBits - bl))
    ELSE F64RoundTo(neg, n, e, bl - MantBits, BigShr(n, bl - MantBits))

\* `x as f64` for an i32 x.
F64FromI32(x) == F64Round(x < 0, BigFromInt(IF x < 0 THEN -x ELSE x), 0)

\* a * b
F64Mul(a, b) ==
    IF a.m = <<>> \/ b.m = <<>> THEN F64(a.neg # b.neg, <<>>, 0)
    ELSE F64Round(a.neg # b.neg, BigMul(a.m, b.m), a.e + b.e)

\* a / b for b # 0: 57 quotient bits and a sticky bit for an inexact
\* quotient decide the rounding.
F64Div(a, b) ==
    IF a.m = <<>> THEN F64(a.neg # b.neg, <<>>, 0)
    ELSE F64Round(a.neg # b.neg, BigDivSticky(BigShl(a.m, MantBits + 3), b.m),
                  a.e - b.e - (MantBits + 4))

\* The sum of (-1)^aneg * na and (-1)^bneg * nb, times 2^e.
F64AddAligned(aneg, na, bneg, nb, e) ==
    IF aneg = bneg THEN F64Round(aneg, BigAdd(na, nb), e)
    ELSE IF BigCmp(na, nb) >= 0 THEN F64Round(aneg, BigSub(na, nb), e)
    ELSE F64Round(bneg, BigSub(nb, na), e)

\* a + b
F64Add(a, b) ==
    LET e == IF a.e <= b.e THEN a.e ELSE b.e
    IN  IF a.m = <<>> THEN b
        ELSE IF b.m = <<>> THEN a
        ELSE F64AddAligned(a.neg, BigShl(a.m, a.e - e), b.neg, BigShl(b.m, b.e - e), e)

F64IsZero(a) == a.m = <<>>

I32Max == 2147483647
\* The i32 of sign neg and magnitude mag, saturating.
I32Saturating(neg, mag) ==
    IF BigBitLen(mag) > 31 THEN (IF neg THEN -I32Max - 1 ELSE I32Max)
    ELSE IF neg THEN -BigToInt(mag) ELSE BigToInt(mag)

\* `a as i32`: toward zero, saturating.
F64ToI32(a) ==
    I32Saturating(a.neg, IF a.e >= 0 THEN BigShl(a.m, a.e) ELSE BigShr(a.m, -a.e))

F64Zero == F64FromI32(0)
F64One == F64FromI32(1)
\* The f64 a decimal literal n/d denotes: the binary64 nearest to it.
F64Lit(n, d) == F64Div(F64FromI32(n), F64FromI32(d))

\* .sum() of f64: the additions from 0.0 in order.
RECURSIVE F64Sum(_, _)
F64Sum(s, loop) ==
    IF loop.i > Len(s) THEN loop.sum
    ELSE F64Sum(s, [i |-> loop.i + 1, sum |-> F64Add(loop.sum, s[loop.i])])

---------------------------------------------------------------------------
(* Rect<i32> of the webgl_wrapper crate.                                   *)

Rect(start, end) == [start |-> start, end |-> end]
RectSize(rect) == VSub(rect.end, rect.start)

contains_point(rect, point) ==
    /\ point[1] >= rect.start[1] /\ point[2] >= rect.start[2]
    /\ point[1] <= rect.end[1]   /\ point[2] <= rect.end[2]

---------------------------------------------------------------------------
(* Events (src/src/event.rs).                                              *)

Key(key, shift) == [key |-> key, shift |-> shift]
KeyDown(key) == [type |-> "KeyDown", key |-> key]
KeyUp(key) == [type |-> "KeyUp", key |-> key]
MouseDown(button, pos) == [type |-> "MouseDown", button |-> button, pos |-> pos]
MouseUp(button, pos) == [type |-> "MouseUp", button |-> button, pos |-> pos]
MouseMove(pos, movement) == [type |-> "MouseMove", pos |-> pos, movement |-> movement]
WindowResized(size) == [type |-> "WindowResized", size |-> size]
Scroll(delta) == [type |-> "Scroll", delta |-> delta]
Plain(type) == [type |-> type]

---------------------------------------------------------------------------
(* Widgets (src/src/widgets.rs).  A widget is a record; its children are   *)
(* widgets, each with the flex weight (an f64) its container stores beside *)
(* it.  text_size is what Font::string_size measures for a leaf's text,    *)
(* lines the Font::string_width of each line of a TextBox or MessageBox.   *)

\* The fields of Theme that layout reads: padding, and the advance_y of its
\* font.
Theme(padding, advance_y) == [padding |-> padding, advance_y |-> advance_y]

Widget(id, kind, is_component, text_size, children, flex) ==
    [id |-> id, kind |-> kind, is_component |-> is_component,
     text_size |-> text_size, children |-> children, flex |-> flex]

Label(id, text_size) == Widget(id, "Label", FALSE, text_size, <<>>, <<>>)
Button(id, text_size) == Widget(id, "Button", TRUE, text_size, <<>>, <<>>)
Col(id, children, flex) == Widget(id, "Col", FALSE, <<0, 0>>, children, flex)
Row(id, children, flex) == Widget(id, "Row", FALSE, <<0, 0>>, children, flex)
Overlap(id, children) ==
    Widget(id, "Overlap", FALSE, <<0, 0>>, children, [i \in DOMAIN children |-> F64Zero])
NoFill(id, child) == Widget(id, "NoFill", FALSE, <<0, 0>>, <<child>>, <<F64Zero>>)
Inset(id, child) == Widget(id, "Inset", FALSE, <<0, 0>>, <<child>>, <<F64Zero>>)
Empty(id) == Widget(id, "Empty", FALSE, <<0, 0>>, <<>>, <<>>)
Padding(id) == Widget(id, "Padding", FALSE, <<0, 0>>, <<>>, <<>>)
TextBox(id, lines) ==
    [id |-> id, kind |-> "TextBox", is_component |-> FALSE, text_size |-> <<0, 0>>,
     children |-> <<>>, flex |-> <<>>, lines |-> lines]
MessageBox(id, lines) ==
    [id |-> id, kind |-> "MessageBox", is_component |-> FALSE, text_size |-> <<0, 0>>,
     children |-> <<>>, flex |-> <<>>, lines |-> lines]
\* An application-defined Component that has a child widget: it implements
\* the Widget trait with is_component() = true and hands its child its own
\* rectangle.
Panel(id, child) == Widget(id, "Panel", TRUE, <<0, 0>>, <<child>>, <<F64Zero>>)

\* The loops of Col::min_size, Row::min_size and Overlap::min_size over the
\* children: loop.i is the index of the next child and loop.min_size the
\* accumulator.
RECURSIVE col_min_size(_, _, _)
\* Col::min_size taking the largest of the children's widths, not of them
\* and 0.
col_min_size_of_children_only(children, min_sizes, loop) ==
    IF loop.i > Len(children) THEN loop.min_size
    ELSE LET child_min_size == min_sizes[children[loop.i].id] IN
         col_min_size(children, min_sizes,
                      [i |-> loop.i + 1,
                       min_size |-> <<IF loop.i = 1 THEN child_min_size[1]
                                      ELSE Max(loop.min_size[1], child_min_size[1]),
                                      loop.min_size[2] + child_min_size[2]>>])
col_min_size(children, min_sizes, loop) ==
    IF loop.i > Len(children) THEN loop.min_size
    ELSE LET child_min_size == min_sizes[children[loop.i].id] IN
         col_min_size(children, min_sizes,
                      [i |-> loop.i + 1,
                       min_size |-> <<Max(loop.min_size[1], child_min_size[1]),
                                      loop.min_size[2] + child_min_size[2]>>])

RECURSIVE row_min_size(_, _, _)
\* Row::min_size taking the height of the latest child instead of the
\* largest.
row_min_size_last_height(children, min_sizes, loop) ==
    IF loop.i > Len(children) THEN loop.min_size
    ELSE LET child_min_size == min_sizes[children[loop.i].id] IN
         row_min_size(children, min_sizes,
                      [i |-> loop.i + 1,
                       min_size |-> <<loop.min_size[1] + child_min_size[1],
                                      child_min_size[2]>>])
row_min_size(children, min_sizes, loop) ==
    IF loop.i > Len(children) THEN loop.min_size
    ELSE LET child_min_size == min_sizes[children[loop.i].id] IN
         row_min_size(children, min_sizes,
                      [i |-> loop.i + 1,
                       min_size |-> <<loop.min_size[1] + child_min_size[1],
                                      Max(loop.min_size[2], child_min_size[2])>>])

RECURSIVE overlap_min_size(_, _, _)
overlap_min_size(children, min_sizes, loop) ==
    IF loop.i > Len(children) THEN loop.min_size
    ELSE LET child_min_size == min_sizes[children[loop.i].id] IN
         overlap_min_size(children, min_sizes,
                          [i |-> loop.i + 1,
                           min_size |-> <<Max(loop.min_size[1], child_min_size[1]),
                                          Max(loop.min_size[2], child_min_size[2])>>])

\* lines.iter().map(string_width).max() of TextBox::min_size and
\* MessageBox::min_size, for at least one line.
RECURSIVE max_width(_, _)
max_width(lines, i) ==
    IF i = Len(lines) THEN lines[i] ELSE Max(lines[i], max_width(lines, i + 1))

text_min_size(widget, theme) ==
    IF widget.lines = <<>> THEN <<0, 0>>
    ELSE <<max_width(widget.lines, 1), theme.advance_y * Len(widget.lines)>>

\* Widget::min_size of each kind.
min_size(widget, theme, min_sizes) ==
    CASE widget.kind = "Label"   -> widget.text_size
      [] widget.kind = "Button"  -> VAdd(widget.text_size, <<4, 2>>)
      [] widget.kind = "NoFill"  -> min_sizes[widget.children[1].id]
      [] widget.kind = "Col"     -> col_min_size(widget.children, min_sizes, [i |-> 1, min_size |-> <<0, 0>>])
      [] widget.kind = "Row"     -> row_min_size(widget.children, min_sizes, [i |-> 1, min_size |-> <<0, 0>>])
      [] widget.kind = "TextBox" -> text_min_size(widget, theme)
      [] widget.kind = "MessageBox" -> text_min_size(widget, theme)
      [] widget.kind = "Overlap" -> overlap_min_size(widget.children, min_sizes, [i |-> 1, min_size |-> <<0, 0>>])
      [] widget.kind = "Empty"   -> <<0, 0>>
      [] widget.kind = "Padding" -> <<theme.padding, theme.padding>>
      [] widget.kind = "Inset"   ->
            VAdd(min_sizes[widget.children[1].id], <<theme.padding * 2, theme.padding * 2>>)
      [] widget.kind = "Panel"   -> min_sizes[widget.children[1].id]

\* One call of Widget::min_size: the widget's id and the ids the map holds
\* when it is made.
MinSizeCall(id, min_sizes) == [id |-> id, known |-> DOMAIN min_sizes]
\* The min-size pass before its first step: the empty map of Gui::draw, and
\* no call of Widget::min_size made yet.
NoPass == [min_sizes |-> EmptyMap, calls |-> <<>>]

\* compute_widget_min_size: the children first, then the widget itself.
\* pass.min_sizes is the map so far and pass.calls the calls of
\* Widget::min_size so far; loop.i is the index of the next child.
RECURSIVE compute_widget_min_size(_, _, _)
RECURSIVE compute_children_min_size(_, _, _)
\* The loop over the children from the last child to the first.
compute_children_min_size_backwards(children, theme, loop) ==
    IF loop.i > Len(children) THEN loop.pass
    ELSE compute_children_min_size(children, theme,
            [i |-> loop.i + 1,
             pass |-> compute_widget_min_size(children[Len(children) + 1 - loop.i], theme,
                                              loop.pass)])
compute_children_min_size(children, theme, loop) ==
    IF loop.i > Len(children) THEN loop.pass
    ELSE compute_children_min_size(children, theme,
            [i |-> loop.i + 1,
             pass |-> compute_widget_min_size(children[loop.i], theme, loop.pass)])

compute_widget_min_size(widget, theme, pass) ==
    LET below == compute_children_min_size(widget.children, theme, [i |-> 1, pass |-> pass])
    IN  [min_sizes |-> Insert(below.min_sizes, widget.id,
                              min_size(widget, theme, below.min_sizes)),
         calls |-> Append(below.calls, MinSizeCall(widget.id, below.min_sizes))]

\* The share of a child of weight 1, whatever its weight.
widget_extra_space_unweighted(extra_space, flex, total_flex) ==
    F64ToI32(F64Div(F64FromI32(extra_space), total_flex))
\* The share rounded to the nearest integer instead of truncated.
widget_extra_space_nearest(extra_space, flex, total_flex) ==
    F64ToI32(F64Add(F64Div(F64Mul(F64FromI32(extra_space), flex), total_flex),
                    F64Lit(1, 2)))
\* (extra_space as f64 * flex / total_flex) as i32
widget_extra_space(extra_space, flex, total_flex) ==
    F64ToI32(F64Div(F64Mul(F64FromI32(extra_space), flex), total_flex))

\* The rect pass before its first step: the empty map of Gui::draw, and no
\* call of Widget::compute_rects made yet.
NoRects == [widget_rects |-> EmptyMap, allocated |-> EmptyMap]
\* widget_rects.insert(id, own_rect) in the compute_rects that was called
\* with rect: pass.widget_rects is the rect map, pass.allocated the rect
\* argument of each call so far.
Record(pass, id, rect, own_rect) ==
    [widget_rects |-> Insert(pass.widget_rects, id, own_rect),
     allocated |-> Insert(pass.allocated, id, rect)]

\* A NoFill taking the whole rectangle it is given.
nofill_rect_filling(rect, min_size_) == rect
\* The rectangle of NoFill::compute_rects, for itself and for its child.
nofill_rect(rect, min_size_) == Rect(rect.start, VAdd(rect.start, min_size_))

\* Widget::compute_rects of each kind; the result is the pass after it.
RECURSIVE compute_rects(_, _, _, _, _)
\* The loop of Col::compute_rects over the children: loop.i is the index of
\* the next child, loop.next_pos the value of the code's variable before it
\* and loop.pass the pass so far.
RECURSIVE col_children_rects(_, _, _, _, _, _)
col_children_rects(widget, rect, total_flex, theme, min_sizes, loop) ==
    IF loop.i > Len(widget.children) THEN loop.pass
    ELSE LET child == widget.children[loop.i]
             child_min_size == min_sizes[child.id]
             extra_space == RectSize(rect)[2] - min_sizes[widget.id][2]
             widget_height == child_min_size[2]
                              + widget_extra_space(extra_space, widget.flex[loop.i], total_flex)
             widget_rect == Rect(loop.next_pos,
                                 VAdd(loop.next_pos, <<RectSize(rect)[1], widget_height>>))
         IN  col_children_rects(widget, rect, total_flex, theme, min_sizes,
                [i |-> loop.i + 1,
                 next_pos |-> VAdd(loop.next_pos, <<0, widget_height>>),
                 pass |-> compute_rects(child, widget_rect, theme, min_sizes, loop.pass)])

\* The loop of Row::compute_rects over the children.
RECURSIVE row_children_rects(_, _, _, _, _, _)
\* The loop without `next_pos.x += widget_width`.
row_children_rects_not_advancing(widget, rect, total_flex, theme, min_sizes, loop) ==
    IF loop.i > Len(widget.children) THEN loop.pass
    ELSE LET child == widget.children[loop.i]
             child_min_size == min_sizes[child.id]
             extra_space == RectSize(rect)[1] - min_sizes[widget.id][1]
             widget_width == child_min_size[1]
                             + widget_extra_space(extra_space, widget.flex[loop.i], total_flex)
             widget_rect == Rect(loop.next_pos,
                                 VAdd(loop.next_pos, <<widget_width, RectSize(rect)[2]>>))
         IN  row_children_rects(widget, rect, total_flex, theme, min_sizes,
                [i |-> loop.i + 1,
                 next_pos |-> loop.next_pos,
                 pass |-> compute_rects(child, widget_rect, theme, min_sizes, loop.pass)])
row_children_rects(widget, rect, total_flex, theme, min_sizes, loop) ==
    IF loop.i > Len(widget.children) THEN loop.pass
    ELSE LET child == widget.children[loop.i]
             child_min_size == min_sizes[child.id]
             extra_space == RectSize(rect)[1] - min_sizes[widget.id][1]
             widget_width == child_min_size[1]
                             + widget_extra_space(extra_space, widget.flex[loop.i], total_flex)
             widget_rect == Rect(loop.next_pos,
                                 VAdd(loop.next_pos, <<widget_width, RectSize(rect)[2]>>))
         IN  row_children_rects(widget, rect, total_flex, theme, min_sizes,
                [i |-> loop.i + 1,
                 next_pos |-> VAdd(loop.next_pos, <<widget_width, 0>>),
                 pass |-> compute_rects(child, widget_rect, theme, min_sizes, loop.pass)])

\* The loop of Overlap::compute_rects over the children.
RECURSIVE overlap_children_rects(_, _, _, _, _)
\* The loop handing each child its min size at the start of own_rect.
overlap_children_rects_at_min_size(widget, own_rect, theme, min_sizes, loop) ==
    IF loop.i > Len(widget.children) THEN loop.pass
    ELSE overlap_children_rects(widget, own_rect, theme, min_sizes,
            [i |-> loop.i + 1,
             pass |-> compute_rects(widget.children[loop.i],
                                    Rect(own_rect.start,
                                         VAdd(own_rect.start,
                                              min_sizes[widget.children[loop.i].id])),
                                    theme, min_sizes, loop.pass)])
overlap_children_rects(widget, own_rect, theme, min_sizes, loop) ==
    IF loop.i > Len(widget.children) THEN loop.pass
    ELSE overlap_children_rects(widget, own_rect, theme, min_sizes,
            [i |-> loop.i + 1,
             pass |-> compute_rects(widget.children[loop.i], own_rect, theme, min_sizes,
                                    loop.pass)])

compute_rects(widget, rect, theme, min_sizes, pass) ==
    LET total_flex == F64Sum(widget.flex, [i |-> 1, sum |-> F64Zero])
        min_sz == min_sizes[widget.id]
        flex_or_one == IF F64IsZero(total_flex) THEN F64One ELSE total_flex
    IN
    CASE widget.kind = "NoFill" ->
            LET own_rect == nofill_rect(rect, min_sz)
            IN  compute_rects(widget.children[1], own_rect, theme, min_sizes,
                              Record(pass, widget.id, rect, own_rect))
      [] widget.kind = "Col" ->
            LET own_rect == IF F64IsZero(total_flex)
                            THEN Rect(rect.start, VAdd(rect.start, <<RectSize(rect)[1], min_sz[2]>>))
                            ELSE Rect(rect.start, VAdd(rect.start, RectSize(rect)))
            IN  col_children_rects(widget, rect, flex_or_one, theme, min_sizes,
                    [i |-> 1, next_pos |-> rect.start,
                     pass |-> Record(pass, widget.id, rect, own_rect)])
      [] widget.kind = "Row" ->
            LET own_rect == IF F64IsZero(total_flex)
                            THEN Rect(rect.start, VAdd(rect.start, <<min_sz[1], RectSize(rect)[2]>>))
                            ELSE Rect(rect.start, VAdd(rect.start, RectSize(rect)))
            IN  row_children_rects(widget, rect, flex_or_one, theme, min_sizes,
                    [i |-> 1, next_pos |-> rect.start,
                     pass |-> Record(pass, widget.id, rect, own_rect)])
      [] widget.kind \in {"Overlap", "Panel"} ->
            overlap_children_rects(widget, rect, theme, min_sizes,
                    [i |-> 1, pass |-> Record(pass, widget.id, rect, rect)])
      [] widget.kind = "Inset" ->
            LET padding == <<theme.padding, theme.padding>>
                own_rect == Rect(rect.start,
                                 VAdd(rect.end, <<theme.padding * 2, theme.padding * 2>>))
            IN  compute_rects(widget.children[1],
                              Rect(VAdd(rect.start, padding), VSub(rect.end, padding)),
                              theme, min_sizes, Record(pass, widget.id, rect, own_rect))
      [] OTHER -> Record(pass, widget.id, rect, rect)

---------------------------------------------------------------------------
(* The event router (src/src/gui.rs).                                      *)

\* component_event without the translation into the component's frame.
component_event_untranslated(event, rect, is_active) ==
    CASE event.type \in {"KeyDown", "KeyUp"} -> IF is_active THEN Some(event) ELSE None
      [] event.type \in {"MouseDown", "MouseUp", "MouseMove"} ->
            IF contains_point(rect, event.pos) THEN Some(event) ELSE None
      [] event.type \in {"MouseEnter", "MouseLeave", "PointerLocked", "PointerUnlocked"} -> None
      [] OTHER -> Some(event)

\* component_event with MouseEnter and MouseLeave passed on like FocusGained.
component_event_enter_leave(event, rect, is_active) ==
    CASE event.type \in {"KeyDown", "KeyUp"} -> IF is_active THEN Some(event) ELSE None
      [] event.type \in {"MouseDown", "MouseUp", "MouseMove"} ->
            IF contains_point(rect, event.pos)
            THEN Some([event EXCEPT !.pos = VSub(event.pos, rect.start)])
            ELSE None
      [] event.type \in {"PointerLocked", "PointerUnlocked"} -> None
      [] OTHER -> Some(event)

\* The match of widget_handle_event: the event a component is handed for
\* `event`, or None when the component does not take it.
component_event(event, rect, is_active) ==
    CASE event.type = "KeyDown" -> IF is_active THEN Some(event) ELSE None
      [] event.type = "KeyUp" -> IF is_active THEN Some(event) ELSE None
      [] event.type = "MouseDown" ->
            IF contains_point(rect, event.pos)
            THEN Some(MouseDown(event.button, VSub(event.pos, rect.start)))
            ELSE None
      [] event.type = "MouseUp" ->
            IF contains_point(rect, event.pos)
            THEN Some(MouseUp(event.button, VSub(event.pos, rect.start)))
            ELSE None
      [] event.type = "MouseMove" ->
            IF contains_point(rect, event.pos)
            THEN Some(MouseMove(VSub(event.pos, rect.start), event.movement))
            ELSE None
      [] event.type = "MouseEnter" -> None
      [] event.type = "MouseLeave" -> None
      [] event.type = "FocusGained" -> Some(event)
      [] event.type = "FocusLost" -> Some(event)
      [] event.type = "WindowResized" -> Some(event)
      [] event.type = "PointerLocked" -> None
      [] event.type = "PointerUnlocked" -> None
      [] event.type = "Scroll" -> Some(event)

\* click_focus without the test of the button.
click_focus_any_button(widget, event, rect, active_id) ==
    IF event.type = "MouseDown" /\ contains_point(rect, event.pos)
    THEN Some(widget.id)
    ELSE active_id

\* The assignment to *active_component_id inside the MouseDown arm.
click_focus(widget, event, rect, active_id) ==
    IF event.type = "MouseDown" /\ contains_point(rect, event.pos) /\ event.button = "Left"
    THEN Some(widget.id)
    ELSE active_id

\* push_event putting the event at the front of the bucket.
push_event_front(out, id, event2) ==
    Insert(out, id, <<event2>> \o (IF id \in DOMAIN out THEN out[id] ELSE <<>>))

\* events_out.entry(id).or_insert_with(|| vec![]).push(event2)
push_event(out, id, event2) ==
    Insert(out, id, (IF id \in DOMAIN out THEN out[id] ELSE <<>>) \o <<event2>>)

\* widget_handle_event returns whether a component took the event, with
\* events_out and *active_component_id as it leaves them.
Routed(handled, out, active_id) ==
    [handled |-> handled, events_out |-> out, active_component_id |-> active_id]

RECURSIVE widget_handle_event(_, _, _, _, _)
\* children_handle_event without the early return: every child is offered
\* the event.
RECURSIVE children_handle_event_all(_, _, _, _, _, _)
children_handle_event_all(children, i, event, widget_rects, out, active_id) ==
    IF i > Len(children) THEN Routed(FALSE, out, active_id)
    ELSE LET r == widget_handle_event(children[i], event, widget_rects, out, active_id)
             rest == children_handle_event_all(children, i + 1, event, widget_rects,
                                               r.events_out, r.active_component_id)
         IN  Routed(r.handled \/ rest.handled, rest.events_out, rest.active_component_id)

\* children_handle_event offering the event to the last child first.
RECURSIVE children_handle_event_last_first(_, _, _, _, _, _)
children_handle_event_last_first(children, i, event, widget_rects, out, active_id) ==
    IF i > Len(children) THEN Routed(FALSE, out, active_id)
    ELSE LET r == widget_handle_event(children[Len(children) + 1 - i], event, widget_rects,
                                      out, active_id) IN
         IF r.handled THEN r
         ELSE children_handle_event_last_first(children, i + 1, event, widget_rects,
                                               r.events_out, r.active_component_id)

\* The loop over widget.children() from index i on.
RECURSIVE children_handle_event(_, _, _, _, _, _)
children_handle_event(children, i, event, widget_rects, out, active_id) ==
    IF i > Len(children) THEN Routed(FALSE, out, active_id)
    ELSE LET r == widget_handle_event(children[i], event, widget_rects, out, active_id) IN
         IF r.handled THEN r
         ELSE children_handle_event(children, i + 1, event, widget_rects,
                                    r.events_out, r.active_component_id)

widget_handle_event(widget, event, widget_rects, out, active_id) ==
    IF widget.is_component
    THEN LET rect == widget_rects[widget.id]
             is_active == (active_id = Some(widget.id))
             event2 == component_event(event, rect, is_active)
             active2 == click_focus(widget, event, rect, active_id)
         IN  IF event2 # None
             THEN Routed(TRUE, push_event(out, widget.id, event2[1]), active2)
             ELSE children_handle_event(widget.children, 1, event, widget_rects, out, active2)
    ELSE children_handle_event(widget.children, 1, event, widget_rects, out, active_id)

\* ordered_components.iter().position(|x| *x == id)
position(ordered, id) ==
    IF \E i \in DOMAIN ordered : ordered[i] = id
    THEN Some((CHOOSE i \in DOMAIN ordered :
                  /\ ordered[i] = id
                  /\ \A j \in DOMAIN ordered : ordered[j] = id => i <= j) - 1)
    ELSE None

\* What a block of the loop body leaves in Gui.active_component, or that it
\* panicked before assigning.
Ok(active) == [panic |-> FALSE, active |-> active]
Panic(active) == [panic |-> TRUE, active |-> active]

\* The `if active_component_id != old_active_component_id` block; it panics
\* when the unwrap of position(..) fails.
reconcile_active(active, old_id, new_id, ordered) ==
    IF new_id # old_id
    THEN LET p == position(ordered, new_id[1]) IN
         IF p = None THEN Panic(active) ELSE Ok(Some(<<p[1], new_id[1]>>))
    ELSE Ok(active)

is_tab(event) == event.type = "KeyDown" /\ event.key.key = "Tab"

\* tab_index without the `+ n` of the backward step.
tab_index_no_offset(idx, shift, n) ==
    IF shift THEN Rem(idx - 1, n) ELSE Rem(idx + 1, n)

\* The index a Tab (shift = FALSE) or Shift+Tab (shift = TRUE) key-down
\* moves focus to, from index idx in a list of n components.
tab_index(idx, shift, n) ==
    IF shift THEN Rem(idx - 1 + n, n) ELSE Rem(idx + 1, n)

\* navigate leaving the focus alone when the list is empty.
navigate_skipping_empty(active, event, ordered) ==
    IF active # None /\ is_tab(event)
    THEN IF Len(ordered) = 0 THEN Ok(active)
         ELSE LET idx == tab_index(active[1][1], event.key.shift, Len(ordered)) IN
              IF idx < 0 \/ idx >= Len(ordered) THEN Panic(active)
              ELSE Ok(Some(<<idx, ordered[idx + 1]>>))
    ELSE Ok(active)

\* navigate with a Tab key-down selecting the first component when none is
\* active.
navigate_selecting_first(active, event, ordered) ==
    IF is_tab(event)
    THEN IF active = None
         THEN (IF Len(ordered) = 0 THEN Ok(active) ELSE Ok(Some(<<0, ordered[1]>>)))
         ELSE IF Len(ordered) = 0 THEN Panic(active)
         ELSE LET idx == tab_index(active[1][1], event.key.shift, Len(ordered)) IN
              IF idx < 0 \/ idx >= Len(ordered) THEN Panic(active)
              ELSE Ok(Some(<<idx, ordered[idx + 1]>>))
    ELSE Ok(active)

\* The `if let Some(..) = &mut self.active_component` block; it panics on a
\* remainder by zero or an index out of the bounds of ordered_components.
navigate(active, event, ordered) ==
    IF active # None /\ is_tab(event)
    THEN IF Len(ordered) = 0 THEN Panic(active)
         ELSE LET idx == tab_index(active[1][1], event.key.shift, Len(ordered)) IN
              IF idx < 0 \/ idx >= Len(ordered) THEN Panic(active)
              ELSE Ok(Some(<<idx, ordered[idx + 1]>>))
    ELSE Ok(active)

---------------------------------------------------------------------------
(* Inputs.                                                                 *)

\* The theme of the router's scenes.
ThemePlain == Theme(0, 2)

\* Widget ids: 1, 2, 3 are buttons, 4 and 6 containers, 5 a label.
\* A column of a label over a row of three buttons, on a 12 x 6 surface.
SceneForm ==
    [widget |-> Col(4, <<Label(5, <<6, 2>>),
                         Row(6, <<Button(1, <<0, 0>>), Button(2, <<0, 0>>), Button(3, <<0, 0>>)>>,
                             <<F64Zero, F64Zero, F64Zero>>)>>,
                    <<F64Zero, F64One>>),
     size |-> <<12, 6>>, theme |-> ThemePlain]
\* Two buttons on top of each other.
SceneOverlap ==
    [widget |-> Overlap(4, <<Button(1, <<0, 0>>), Button(2, <<0, 0>>)>>), size |-> <<12, 6>>,
     theme |-> ThemePlain]
\* A component inside a component.
SceneNested ==
    [widget |-> Panel(1, Button(2, <<0, 0>>)), size |-> <<12, 6>>, theme |-> ThemePlain]
\* No component at all.
SceneLabel ==
    [widget |-> Label(5, <<6, 2>>), size |-> <<12, 6>>, theme |-> ThemePlain]

Scenes == {SceneForm, SceneOverlap, SceneNested, SceneLabel}

OrderedLists == {<<>>, <<1>>, <<2, 3>>, <<1, 2, 3>>}

\* In SceneForm: inside button 1, inside button 2, on the label.
PointIn1 == <<1, 3>>
PointIn2 == <<6, 5>>
PointOut == <<6, 1>>

Tab == Key("Tab", FALSE)
ShiftTab == Key("Tab", TRUE)
KeyA == Key("a", FALSE)

\* Every kind of event; the mouse events at PointIn2 miss the first button
\* of SceneForm and hit the second.
Events ==
    {KeyDown(Tab), KeyDown(ShiftTab), KeyDown(KeyA), KeyUp(Tab)}
    \cup {MouseDown("Left", p) : p \in {PointIn1, PointOut}}
    \cup {MouseDown("Right", PointIn2), MouseUp("Left", PointIn2),
          MouseMove(PointIn2, <<1, -1>>)}
    \cup {Plain(t) : t \in {"MouseEnter", "MouseLeave", "PointerLocked", "PointerUnlocked",
                            "FocusGained", "FocusLost"}}
    \cup {WindowResized(<<12, 6>>), Scroll(1)}

RECURSIVE SeqsUpTo(_, _)
SeqsUpTo(S, n) ==
    IF n = 0 THEN {<<>>}
    ELSE LET shorter == SeqsUpTo(S, n - 1) IN
         shorter \cup {Append(q, x) : q \in shorter, x \in S}

---------------------------------------------------------------------------
(* The session (Gui).                                                      *)

GuiEventResult(component_events, unhandled) ==
    [component_events |-> component_events, unhandled_events |-> unhandled]

\* Gui::new
Init ==
    /\ active_component = None
    /\ last_render = None
    /\ pc = "idle"
    /\ events = <<>>
    /\ ordered_components = <<>>
    /\ events_out = EmptyMap
    /\ unhandled_events = <<>>
    /\ active_component_id = None
    /\ result = None
    /\ history = <<>>
    /\ drawn = None
    /\ draw_calls = <<>>
    /\ consumed = <<>>
    /\ triangle_mesh_builder = [verts |-> <<>>, indices |-> <<>>]
    /\ draw_2d_call = <<>>
    /\ queued_events = <<>>
    /\ event_state = [pressed_keys |-> {}, pressed_mouse_buttons |-> {},
                      cursor_pos |-> None, prev_cursor_pos |-> None,
                      pointer_locked |-> FALSE]
    /\ app_calls = <<>>
    /\ arrivals = <<>>
    /\ message_box = <<>>
    /\ added_lines = <<>>
    /\ button_result = <<>>

\* Gui::draw: the min-size pass, the rect pass, and the new last_render.
RenderedGui(scene) ==
    LET min_sizes == compute_widget_min_size(scene.widget, scene.theme, NoPass).min_sizes
        rect == Rect(<<0, 0>>, scene.size)
    IN  [widget |-> scene.widget,
         widget_rects |-> compute_rects(scene.widget, rect, scene.theme, min_sizes,
                                        NoRects).widget_rects]

\* One call of Widget::draw, by its widget and the arguments draw_widget
\* computes for it.
DrawCall(id, rect, is_active) == [id |-> id, rect |-> rect, is_active |-> is_active]

RECURSIVE draw_children(_, _, _, _, _)
\* draw_widget drawing the children before the widget.
RECURSIVE draw_widget_children_first(_, _, _, _)
draw_widget_children_first(widget, widget_rects, active_widget_id, calls) ==
    Append(draw_children(widget.children, 1, widget_rects, active_widget_id, calls),
           DrawCall(widget.id, widget_rects[widget.id], active_widget_id = Some(widget.id)))

\* draw_widget: the widget, then its children; calls is the log so far.
RECURSIVE draw_widget(_, _, _, _)
draw_widget(widget, widget_rects, active_widget_id, calls) ==
    LET rect == widget_rects[widget.id]
        is_active == (active_widget_id = Some(widget.id))
    IN  draw_children(widget.children, 1, widget_rects, active_widget_id,
                      Append(calls, DrawCall(widget.id, rect, is_active)))

\* The loop of draw_widget over widget.children() from index i on.
draw_children(children, i, widget_rects, active_widget_id, calls) ==
    IF i > Len(children) THEN calls
    ELSE draw_children(children, i + 1, widget_rects, active_widget_id,
                       draw_widget(children[i], widget_rects, active_widget_id, calls))

\* Draw keeping the tree and rect map it has stored, once it has some.
Draw_keeping_first(scene) ==
    LET render == RenderedGui(scene)
        pass == compute_widget_min_size(scene.widget, scene.theme, NoPass)
        rects == compute_rects(scene.widget, Rect(<<0, 0>>, scene.size), scene.theme,
                               pass.min_sizes, NoRects)
        active_component_id_ == IF active_component = None THEN None
                                ELSE Some(active_component[1][2])
    IN  /\ pc = "idle"
        /\ last_render' = IF last_render = None THEN Some(render) ELSE last_render
        /\ drawn' = Some([widget |-> scene.widget, size |-> scene.size, theme |-> scene.theme,
                          min_sizes |-> pass.min_sizes, min_size_calls |-> pass.calls,
                          widget_rects |-> render.widget_rects,
                          allocated |-> rects.allocated])
        /\ draw_calls' = draw_widget(scene.widget, render.widget_rects,
                                     active_component_id_, <<>>)
        /\ UNCHANGED <<active_component, pc, events, ordered_components, events_out,
                       unhandled_events, active_component_id, result, history, consumed,
                   beyond_gui>>

\* Draw starting the focus afresh with every tree.
Draw_resetting_focus(scene) ==
    LET render == RenderedGui(scene)
        pass == compute_widget_min_size(scene.widget, scene.theme, NoPass)
        rects == compute_rects(scene.widget, Rect(<<0, 0>>, scene.size), scene.theme,
                               pass.min_sizes, NoRects)
    IN  /\ pc = "idle"
        /\ last_render' = Some(render)
        /\ active_component' = None
        /\ drawn' = Some([widget |-> scene.widget, size |-> scene.size, theme |-> scene.theme,
                          min_sizes |-> pass.min_sizes, min_size_calls |-> pass.calls,
                          widget_rects |-> render.widget_rects,
                          allocated |-> rects.allocated])
        /\ draw_calls' = draw_widget(scene.widget, render.widget_rects, None, <<>>)
        /\ UNCHANGED <<pc, events, ordered_components, events_out,
                       unhandled_events, active_component_id, result, history, consumed,
                       beyond_gui>>

Draw(scene) ==
    LET render == RenderedGui(scene)
        pass == compute_widget_min_size(scene.widget, scene.theme, NoPass)
        rects == compute_rects(scene.widget, Rect(<<0, 0>>, scene.size), scene.theme,
                               pass.min_sizes, NoRects)
        active_component_id_ == IF active_component = None THEN None
                                ELSE Some(active_component[1][2])
    IN  /\ pc = "idle"
        /\ last_render' = Some(render)
        /\ drawn' = Some([widget |-> scene.widget, size |-> scene.size, theme |-> scene.theme,
                          min_sizes |-> pass.min_sizes, min_size_calls |-> pass.calls,
                          widget_rects |-> render.widget_rects,
                          allocated |-> rects.allocated])
        /\ draw_calls' = draw_widget(scene.widget, render.widget_rects,
                                     active_component_id_, <<>>)
        /\ UNCHANGED <<active_component, pc, events, ordered_components, events_out,
                       unhandled_events, active_component_id, result, history, consumed,
                   beyond_gui>>

\* HandleEventsNoRender with the Tab and Shift+Tab key-downs intercepted as
\* they are when a tree is stored.
HandleEventsNoRender_navigating(batch, ordered) ==
    LET NotTab(event) == ~is_tab(event) IN
    /\ pc' = "returned"
    /\ events' = batch
    /\ ordered_components' = ordered
    /\ events_out' = EmptyMap
    /\ unhandled_events' = SelectSeq(batch, NotTab)
    /\ active_component_id' = None
    /\ result' = Some(GuiEventResult(EmptyMap, SelectSeq(batch, NotTab)))
    /\ history' = <<>>
    /\ UNCHANGED <<active_component, last_render, drawn, draw_calls, consumed, beyond_gui>>

\* Gui::handle_events with no stored tree: every event is unhandled.
HandleEventsNoRender(batch, ordered) ==
    /\ pc' = "returned"
    /\ events' = batch
    /\ ordered_components' = ordered
    /\ events_out' = EmptyMap
    /\ unhandled_events' = batch
    /\ active_component_id' = None
    /\ result' = Some(GuiEventResult(EmptyMap, batch))
    /\ history' = <<>>
    /\ UNCHANGED <<active_component, last_render, drawn, draw_calls, consumed, beyond_gui>>

\* Gui::handle_events with a stored tree, up to the loop.  The elements of
\* the events slice are drawn as the loop reaches them.
HandleEvents(ordered) ==
    /\ pc = "idle"
    /\ last_render # None
    /\ pc' = "loop"
    /\ events' = <<>>
    /\ ordered_components' = ordered
    /\ events_out' = EmptyMap
    /\ unhandled_events' = <<>>
    /\ active_component_id' = IF active_component = None THEN None
                              ELSE Some(active_component[1][2])
    /\ result' = None
    /\ history' = <<>>
    /\ draw_calls' = <<>>
    /\ UNCHANGED <<active_component, last_render, drawn, consumed, beyond_gui>>

\* One iteration of the loop of handle_events, as the values it leaves.
loop_body(event, active, active_id, out, unhandled, ordered, render) ==
    LET r == widget_handle_event(render.widget, event, render.widget_rects, out, active_id)
        a1 == reconcile_active(active, active_id, r.active_component_id, ordered)
        a2 == IF a1.panic THEN a1 ELSE navigate(a1.active, event, ordered)
        pushed == ~a2.panic /\ ~(a1.active # None /\ is_tab(event))
    IN  [panic |-> a2.panic,
         handled |-> r.handled,
         navigated |-> ~a2.panic /\ a1.active # None /\ is_tab(event),
         active_component |-> a2.active,
         active_component_id |-> r.active_component_id,
         events_out |-> r.events_out,
         unhandled_events |-> IF pushed THEN Append(unhandled, event) ELSE unhandled]

ProcessEvent(event) ==
    /\ pc = "loop"
    /\ Len(events) < MaxBatch
    /\ LET b == loop_body(event, active_component, active_component_id, events_out,
                          unhandled_events, ordered_components, last_render[1])
       IN  /\ pc' = IF b.panic THEN "panicked" ELSE "loop"
           /\ active_component' = b.active_component
           /\ active_component_id' = b.active_component_id
           /\ events_out' = b.events_out
           /\ unhandled_events' = b.unhandled_events
           /\ history' = Append(history,
                                [event |-> event,
                                 active_component |-> active_component,
                                 active_component_id |-> active_component_id,
                                 events_out |-> events_out,
                                 unhandled_events |-> unhandled_events,
                                 handled |-> b.handled,
                                 navigated |-> b.navigated])
    /\ events' = Append(events, event)
    /\ UNCHANGED <<last_render, ordered_components, result, drawn, draw_calls, consumed,
                   beyond_gui>>

\* handle_events forgetting the stored tree as it returns.
Return_dropping_render ==
    /\ pc = "loop"
    /\ pc' = "returned"
    /\ result' = Some(GuiEventResult(events_out, unhandled_events))
    /\ last_render' = None
    /\ UNCHANGED <<active_component, events, ordered_components, events_out,
                   unhandled_events, active_component_id, history, drawn, draw_calls,
                   consumed, beyond_gui>>

\* The end of the slice: handle_events returns its result.
Return ==
    /\ pc = "loop"
    /\ pc' = "returned"
    /\ result' = Some(GuiEventResult(events_out, unhandled_events))
    /\ UNCHANGED <<active_component, last_render, events, ordered_components, events_out,
                   unhandled_events, active_component_id, history, drawn, draw_calls,
                   consumed, beyond_gui>>

\* The application takes the GuiEventResult and is back in its frame loop;
\* the locals of the finished call are gone.
Consume ==
    /\ pc = "returned"
    /\ pc' = "idle"
    /\ events' = <<>>
    /\ ordered_components' = <<>>
    /\ events_out' = EmptyMap
    /\ unhandled_events' = <<>>
    /\ active_component_id' = None
    /\ result' = None
    /\ history' = <<>>
    /\ consumed' = <<>>
    /\ UNCHANGED <<active_component, last_render, drawn, draw_calls, beyond_gui>>

Next ==
    \/ \E scene \in Scenes : Draw(scene)
    \/ /\ pc = "idle"
       /\ last_render = None
       /\ \E batch \in SeqsUpTo(Events, MaxBatch), ordered \in OrderedLists :
             HandleEventsNoRender(batch, ordered)
    \/ \E ordered \in OrderedLists : HandleEvents(ordered)
    \/ \E event \in Events : ProcessEvent(event)
    \/ Return
    \/ Consume

Spec == Init /\ [][Next]_vars

---------------------------------------------------------------------------
(* The layout passes on their own: the first Gui::draw of a session, over  *)
(* trees of the provided widgets, surface sizes and theme paddings.        *)

MaxPadding == 1

\* WidgetId::new() gives every widget an id of its own: the widgets of a
\* tree are numbered in pre-order from `next` on.
RECURSIVE Relabel(_, _)
RECURSIVE RelabelAll(_, _)
RelabelAll(children, next) ==
    IF children = <<>> THEN [children |-> <<>>, next |-> next]
    ELSE LET head == Relabel(Head(children), next)
             rest == RelabelAll(Tail(children), head.next)
         IN  [children |-> <<head.widget>> \o rest.children, next |-> rest.next]
Relabel(widget, next) ==
    LET below == RelabelAll(widget.children, next + 1) IN
    [widget |-> [widget EXCEPT !.id = next, !.children = below.children],
     next |-> below.next]

LayoutLabel == Label(0, <<2, 2>>)
LayoutLeaves ==
    {LayoutLabel, Button(0, <<0, 0>>), Padding(0), Empty(0), TextBox(0, <<3, 1>>),
     MessageBox(0, <<>>)}
\* The weights of a lone child, and of two children: 0.7 is not a binary
\* fraction.
LayoutFlexes == {F64Zero, F64Lit(7, 10)}
LayoutFlexPairs ==
    {<<F64Zero, F64Zero>>, <<F64Zero, F64One>>, <<F64One, F64FromI32(3)>>,
     <<F64Lit(7, 10), F64Lit(7, 10)>>}
LayoutPairs == {<<a, b>> : a, b \in {LayoutLabel, Padding(0)}}
\* Containers of leaves.
LayoutFlat ==
    {NoFill(0, a) : a \in LayoutLeaves} \cup {Inset(0, a) : a \in LayoutLeaves}
    \cup {Overlap(0, <<a>>) : a \in LayoutLeaves}
    \cup {Row(0, <<>>, <<>>), Col(0, <<>>, <<>>), Overlap(0, <<>>)}
    \cup {Row(0, <<a>>, <<f>>) : a \in LayoutLeaves, f \in LayoutFlexes}
    \cup {Col(0, <<a>>, <<f>>) : a \in LayoutLeaves, f \in LayoutFlexes}
    \cup {Row(0, p, f) : p \in LayoutPairs, f \in LayoutFlexPairs}
    \cup {Col(0, p, f) : p \in LayoutPairs, f \in LayoutFlexPairs}
\* Containers of containers.
LayoutInner ==
    {Inset(0, LayoutLabel), NoFill(0, LayoutLabel),
     Row(0, <<LayoutLabel, Padding(0)>>, <<F64One, F64FromI32(3)>>),
     Col(0, <<LayoutLabel, LayoutLabel>>, <<F64Zero, F64Zero>>)}
LayoutNested ==
    {Overlap(0, <<c, LayoutLabel>>) : c \in LayoutInner}
    \cup {Inset(0, c) : c \in LayoutInner} \cup {NoFill(0, c) : c \in LayoutInner}
    \cup {Row(0, <<c, LayoutLabel>>, <<F64Zero, F64One>>) : c \in LayoutInner}
    \cup {Col(0, <<c, LayoutLabel>>, <<F64Zero, F64One>>) : c \in LayoutInner}
LayoutTrees == {Relabel(t, 1).widget : t \in LayoutFlat \cup LayoutNested}
LayoutSizes == {<<5, 5>>, <<12, 6>>}
\* A Row of two labels of min sizes (10,5) and (20,5) with weights 1 and 3,
\* on a 100 x 5 surface.
SceneFlex13 ==
    [widget |-> Row(1, <<Label(2, <<10, 5>>), Label(3, <<20, 5>>)>>,
                    <<F64One, F64FromI32(3)>>),
     size |-> <<100, 5>>, theme |-> ThemePlain]
LayoutScenes ==
    {[widget |-> t, size |-> size, theme |-> Theme(padding, 2)] :
        t \in LayoutTrees, size \in LayoutSizes, padding \in -1 .. MaxPadding}
    \cup {SceneFlex13}

NextLayout ==
    /\ last_render = None
    /\ \E scene \in LayoutScenes : Draw(scene)

SpecLayout == Init /\ [][NextLayout]_vars

---------------------------------------------------------------------------
(* The GuiEventResult in the application's hands: update_component and     *)
(* unhandled_events on what handle_events returned over the form.          *)

\* Largest number of accessor calls on one GuiEventResult.
MaxAccess == 4

\* One accessor call and the events it handed over: update_component hands
\* them to Component::update, unhandled_events returns them.
Access(op, id, events_) == [op |-> op, id |-> id, events |-> events_]

\* FnvHashMap::remove
remove(map, key) == [k \in DOMAIN map \ {key} |-> map[k]]

\* update_component handing over the bucket and leaving it in place.
UpdateComponent_keeping_bucket(id) ==
    /\ pc = "returned"
    /\ Len(consumed) < MaxAccess
    /\ LET component_events == result[1].component_events
           events_ == IF id \in DOMAIN component_events THEN component_events[id] ELSE <<>>
       IN  consumed' = Append(consumed, Access("update_component", id, events_))
    /\ UNCHANGED <<active_component, last_render, pc, events, ordered_components, events_out,
                   unhandled_events, active_component_id, history, drawn, draw_calls,
                   result, beyond_gui>>

\* GuiEventResult::update_component for the component of the given id.
UpdateComponent(id) ==
    /\ pc = "returned"
    /\ Len(consumed) < MaxAccess
    /\ LET component_events == result[1].component_events
           events_ == IF id \in DOMAIN component_events THEN component_events[id] ELSE <<>>
       IN  /\ result' = Some(GuiEventResult(remove(component_events, id),
                                            result[1].unhandled_events))
           /\ consumed' = Append(consumed, Access("update_component", id, events_))
    /\ UNCHANGED <<active_component, last_render, pc, events, ordered_components, events_out,
                   unhandled_events, active_component_id, history, drawn, draw_calls,
                   beyond_gui>>

\* GuiEventResult::unhandled_events
UnhandledEvents ==
    /\ pc = "returned"
    /\ Len(consumed) < MaxAccess
    /\ result' = Some(GuiEventResult(result[1].component_events, <<>>))
    /\ consumed' = Append(consumed, Access("unhandled_events", 0, result[1].unhandled_events))
    /\ UNCHANGED <<active_component, last_render, pc, events, ordered_components, events_out,
                   unhandled_events, active_component_id, history, drawn, draw_calls,
                   beyond_gui>>

\* A click on button 1, a move over button 2, a key, and an event no
\* component receives.
ResultEvents ==
    {MouseDown("Left", PointIn1), MouseMove(PointIn2, <<1, -1>>), KeyDown(KeyA),
     Plain("PointerLocked")}
\* The components the application updates.
ResultComponents == {1, 2}

NextResult ==
    \/ Draw(SceneForm)
    \/ /\ pc = "idle"
       /\ last_render = None
       /\ \E batch \in SeqsUpTo(ResultEvents, MaxBatch) : HandleEventsNoRender(batch, <<1, 2, 3>>)
    \/ HandleEvents(<<1, 2, 3>>)
    \/ \E event \in ResultEvents : ProcessEvent(event)
    \/ Return
    \/ \E id \in ResultComponents : UpdateComponent(id)
    \/ UnhandledEvents
    \/ Consume

SpecResult == Init /\ [][NextResult]_vars

---------------------------------------------------------------------------
(* The shape functions of Draw2d (src/src/draw_2d.rs) over the mesh        *)
(* builder of webgl_wrapper.  Coordinates and widths are f32 in the        *)
(* source; the inputs are small integers and even widths, on which every   *)
(* operation below is exact.                                               *)

\* Most vertices a mesh builder may hold when a shape function is called.
MaxQueued == 4

PlainVert(pos, color) == [pos |-> pos, color |-> color]

\* MeshBuilder::vert queues a vertex; its index is the number of vertices
\* queued before it.  MeshBuilder::triangle queues three indices, and
\* MeshBuilder::clear leaves no vertex and no index.
vert(mesh_builder, v) == [mesh_builder EXCEPT !.verts = Append(@, v)]
triangle(mesh_builder, a, b, c) == [mesh_builder EXCEPT !.indices = Append(@, <<a, b, c>>)]

\* What a shape function leaves in the mesh builder, or that it panicked.
Queued(mesh_builder) == [panic |-> FALSE, mesh_builder |-> mesh_builder]
Aborted(mesh_builder) == [panic |-> TRUE, mesh_builder |-> mesh_builder]

\* The loop of fill_poly over verts.iter().skip(2): a fan around vertex a.
RECURSIVE fill_poly_fan(_, _, _)
fill_poly_fan(verts, color, loop) ==
    IF loop.i > Len(verts) THEN loop.mesh_builder
    ELSE LET c == Len(loop.mesh_builder.verts) IN
         fill_poly_fan(verts, color,
             [i |-> loop.i + 1, a |-> loop.a, b |-> c,
              mesh_builder |-> triangle(vert(loop.mesh_builder,
                                             PlainVert(verts[loop.i], color)),
                                        loop.a, loop.b, c)])

\* fill_poly without its assertion: the indexing of verts[0] and verts[1]
\* is what stops it.
fill_poly_unchecked(mesh_builder, verts, color) ==
    IF Len(verts) = 0 THEN Aborted(mesh_builder)
    ELSE IF Len(verts) = 1 THEN Aborted(vert(mesh_builder, PlainVert(verts[1], color)))
    ELSE LET a == Len(mesh_builder.verts) IN
         Queued(fill_poly_fan(verts, color,
                    [i |-> 3, a |-> a, b |-> a + 1,
                     mesh_builder |-> vert(vert(mesh_builder, PlainVert(verts[1], color)),
                                           PlainVert(verts[2], color))]))

\* Draw2d::fill_poly
fill_poly(mesh_builder, verts, color) ==
    IF ~(Len(verts) >= 3) THEN Aborted(mesh_builder)
    ELSE LET a == Len(mesh_builder.verts) IN
         Queued(fill_poly_fan(verts, color,
                    [i |-> 3, a |-> a, b |-> a + 1,
                     mesh_builder |-> vert(vert(mesh_builder, PlainVert(verts[1], color)),
                                           PlainVert(verts[2], color))]))

ccw_perp(x) == <<x[2], -x[1]>>

\* InnerSpace::normalize of a vector along one axis whose length is a
\* power of two.
normalize(v) ==
    LET Sign(n) == IF n > 0 THEN 1 ELSE IF n < 0 THEN -1 ELSE 0
    IN  <<Sign(v[1]), Sign(v[2])>>

\* The body of the loop of draw_line_strip for the segment from a to b:
\* four vertices and two triangles.
line_segment(mesh_builder, a, b, color, half_width) ==
    LET VScale(v, k) == <<v[1] * k, v[2] * k>>
        perp == normalize(ccw_perp(VSub(b, a)))
        vert_a == Len(mesh_builder.verts)
        vert_b == vert_a + 1
        vert_c == vert_a + 2
        vert_d == vert_a + 3
        with_a == vert(mesh_builder, PlainVert(VAdd(a, VScale(perp, half_width)), color))
        with_b == vert(with_a, PlainVert(VSub(a, VScale(perp, half_width)), color))
        with_c == vert(with_b, PlainVert(VAdd(b, VScale(perp, half_width)), color))
        with_d == vert(with_c, PlainVert(VSub(b, VScale(perp, half_width)), color))
    IN  triangle(triangle(with_d, vert_a, vert_b, vert_c), vert_b, vert_c, vert_d)

\* The loop of draw_line_strip over verts.iter().zip(verts.iter().skip(1)).
RECURSIVE line_strip_segments(_, _, _, _)
line_strip_segments(verts, color, half_width, loop) ==
    IF loop.i + 1 > Len(verts) THEN loop.mesh_builder
    ELSE line_strip_segments(verts, color, half_width,
             [i |-> loop.i + 1,
              mesh_builder |-> line_segment(loop.mesh_builder, verts[loop.i],
                                            verts[loop.i + 1], color, half_width)])

\* Draw2d::draw_line_strip; width * 0.5 is half of an even width.
draw_line_strip(mesh_builder, verts, color, width) ==
    IF ~(Len(verts) >= 2) THEN Aborted(mesh_builder)
    ELSE Queued(line_strip_segments(verts, color, width \div 2,
                                    [i |-> 1, mesh_builder |-> mesh_builder]))

\* A call of fill_poly on a Draw2d that has not panicked.  draw_2d_call
\* keeps the arguments, the mesh builder found and whether the call
\* panicked.
FillPoly(verts, color) ==
    /\ IF draw_2d_call = None THEN TRUE ELSE ~draw_2d_call[1].panic
    /\ Len(triangle_mesh_builder.verts) < MaxQueued
    /\ LET r == fill_poly(triangle_mesh_builder, verts, color)
       IN  /\ triangle_mesh_builder' = r.mesh_builder
           /\ draw_2d_call' = Some([op |-> "fill_poly", verts |-> verts,
                                    found |-> triangle_mesh_builder, panic |-> r.panic])
    /\ UNCHANGED <<gui_vars, main_loop_vars, widget_vars>>

DrawLineStrip(verts, color, width) ==
    /\ IF draw_2d_call = None THEN TRUE ELSE ~draw_2d_call[1].panic
    /\ Len(triangle_mesh_builder.verts) < MaxQueued
    /\ LET r == draw_line_strip(triangle_mesh_builder, verts, color, width)
       IN  /\ triangle_mesh_builder' = r.mesh_builder
           /\ draw_2d_call' = Some([op |-> "draw_line_strip", verts |-> verts,
                                    found |-> triangle_mesh_builder, panic |-> r.panic])
    /\ UNCHANGED <<gui_vars, main_loop_vars, widget_vars>>

\* Draw2d::render_queued: the queue is built into the mesh, drawn and
\* cleared.
RenderQueued ==
    /\ draw_2d_call # None /\ ~draw_2d_call[1].panic
    /\ triangle_mesh_builder' = [verts |-> <<>>, indices |-> <<>>]
    /\ draw_2d_call' = None
    /\ UNCHANGED <<gui_vars, main_loop_vars, widget_vars>>

\* The corners of a triangle with two sides along the axes.
ShapePoints == {<<0, 0>>, <<2, 0>>, <<2, 2>>}

\* The arguments of draw_line_strip: from no vertex to two segments, every
\* segment along an axis.
Strips ==
    LET AlongAxis(a, b) == a # b /\ (a[1] = b[1] \/ a[2] = b[2])
    IN  {q \in SeqsUpTo(ShapePoints, 3) :
            \A i \in 1 .. Len(q) - 1 : AlongAxis(q[i], q[i + 1])}

\* fill_poly is given from no vertex to a quadrilateral; there are two
\* colours, and the widths 2 and 4.
NextDraw2d ==
    \/ \E verts \in SeqsUpTo(ShapePoints, 4), color \in {"WHITE", "BLACK"} : FillPoly(verts, color)
    \/ \E verts \in Strips, color \in {"WHITE", "BLACK"}, width \in {2, 4} :
          DrawLineStrip(verts, color, width)
    \/ RenderQueued

SpecDraw2d == Init /\ [][NextDraw2d]_vars

---------------------------------------------------------------------------
(* The main loop (src/src/main_loop.rs).  The browser runs one callback at *)
(* a time, each to its end: a listener of an input event or the animation  *)
(* frame closure.                                                          *)

\* Most calls of App methods in one behaviour.
MaxCalls == 4

\* What the listener of `event` and the callback of setup_event_callbacks
\* do to the EventState before the application's callback is called: the
\* mousemove and mouseleave listeners set the cursor, then the match.
event_state_update_keeping_buttons(state, event) ==
    LET cursor ==
            CASE event.type = "MouseMove" ->
                    [state EXCEPT !.prev_cursor_pos = state.cursor_pos,
                                  !.cursor_pos = Some(event.pos)]
              [] event.type = "MouseLeave" -> [state EXCEPT !.cursor_pos = None]
              [] OTHER -> state
    IN  CASE event.type = "KeyDown" ->
                [cursor EXCEPT !.pressed_keys = @ \cup {event.key.code}]
          [] event.type = "KeyUp" ->
                [cursor EXCEPT !.pressed_keys = @ \ {event.key.code}]
          [] event.type = "FocusLost" ->
                [cursor EXCEPT !.pressed_keys = {}, !.pressed_mouse_buttons = {}]
          [] event.type = "MouseDown" ->
                [cursor EXCEPT !.pressed_mouse_buttons = @ \cup {event.button}]
          [] event.type = "MouseUp" ->
                [cursor EXCEPT !.pressed_mouse_buttons = @ \ {event.button}]
          [] event.type = "PointerLocked" -> [cursor EXCEPT !.pointer_locked = TRUE]
          [] event.type = "PointerUnlocked" -> [cursor EXCEPT !.pointer_locked = FALSE]
          [] OTHER -> cursor

event_state_update(state, event) ==
    LET cursor ==
            CASE event.type = "MouseMove" ->
                    [state EXCEPT !.prev_cursor_pos = state.cursor_pos,
                                  !.cursor_pos = Some(event.pos)]
              [] event.type = "MouseLeave" -> [state EXCEPT !.cursor_pos = None]
              [] OTHER -> state
    IN  CASE event.type = "KeyDown" ->
                [cursor EXCEPT !.pressed_keys = @ \cup {event.key.code}]
          [] event.type = "KeyUp" ->
                [cursor EXCEPT !.pressed_keys = @ \ {event.key.code}]
          [] event.type = "FocusLost" ->
                [cursor EXCEPT !.pressed_keys = {}, !.pressed_mouse_buttons = {}]
          [] event.type = "MouseDown" ->
                [cursor EXCEPT !.pressed_mouse_buttons = @ \cup {event.button}]
          [] event.type = "MouseUp" ->
                [cursor EXCEPT !.pressed_mouse_buttons = @ \ {event.button}]
          [] event.type = "MouseLeave" -> [cursor EXCEPT !.pressed_mouse_buttons = {}]
          [] event.type = "PointerLocked" -> [cursor EXCEPT !.pointer_locked = TRUE]
          [] event.type = "PointerUnlocked" -> [cursor EXCEPT !.pointer_locked = FALSE]
          [] OTHER -> cursor

\* A listener is called with an event: the EventState is updated, then the
\* callback of start_main_loop hands the event to App::handle_event and
\* pushes it on the queue.  app_calls keeps each call of an App method:
\* handle_event with its event, render_frame with its events vector, and
\* the EventState at the call.
EventCallback(event) ==
    /\ Len(app_calls) < MaxCalls
    /\ arrivals' = Append(arrivals, event)
    /\ event_state' = event_state_update(event_state, event)
    /\ app_calls' = Append(app_calls,
                           [op |-> "handle_event", events |-> <<event>>,
                            event_state |-> event_state_update(event_state, event)])
    /\ queued_events' = Append(queued_events, event)
    /\ UNCHANGED <<gui_vars, draw_2d_vars, widget_vars>>

\* The animation frame closure leaving the queue as it is.
AnimationFrame_keeping_queue ==
    /\ Len(app_calls) < MaxCalls
    /\ app_calls' = Append(app_calls, [op |-> "render_frame", events |-> queued_events,
                                       event_state |-> event_state])
    /\ UNCHANGED <<gui_vars, draw_2d_vars, widget_vars, queued_events, event_state, arrivals>>

\* The animation frame closure: the queue is taken, leaving an empty one,
\* and handed to App::render_frame; the next frame is requested.
AnimationFrame ==
    /\ Len(app_calls) < MaxCalls
    /\ queued_events' = <<>>
    /\ app_calls' = Append(app_calls, [op |-> "render_frame", events |-> queued_events,
                                       event_state |-> event_state])
    /\ UNCHANGED <<gui_vars, draw_2d_vars, widget_vars, event_state, arrivals>>

\* The events of the listeners: two keys by code, two mouse buttons, a
\* move, and the events that clear or set a part of the EventState.
NextMainLoop ==
    \/ LET KeyOf(code) == [key |-> "a", code |-> code, shift |-> FALSE] IN
       \E event \in {[type |-> "KeyDown", key |-> KeyOf("KeyA")],
                     [type |-> "KeyDown", key |-> KeyOf("KeyB")],
                     [type |-> "KeyUp", key |-> KeyOf("KeyA")],
                     MouseDown("Left", <<1, 3>>), MouseDown("Right", <<1, 3>>),
                     MouseUp("Left", <<1, 3>>), MouseMove(<<6, 5>>, <<1, -1>>),
                     Plain("MouseLeave"), Plain("FocusLost"), Plain("PointerLocked"),
                     Plain("PointerUnlocked")} :
          EventCallback(event)
    \/ AnimationFrame

SpecMainLoop == Init /\ [][NextMainLoop]_vars

---------------------------------------------------------------------------
(* The widgets the application keeps across frames (src/src/widgets.rs):   *)
(* a MessageBox and its add_line, a Button and its update.                 *)

\* Largest max_lines of a MessageBox, and most calls of add_line on it.
MaxLines == 2
MaxAdded == 4

\* add_line dropping the line it was given when the box is full.
add_line_keeping_oldest(lines, max_lines, color, line) ==
    LET pushed == Append(lines, <<line, color>>) IN
    IF Len(pushed) > max_lines THEN SubSeq(pushed, 1, Len(pushed) - 1) ELSE pushed

\* MessageBox::add_line: push, then remove(0) when over max_lines.
add_line(lines, max_lines, color, line) ==
    LET pushed == Append(lines, <<line, color>>) IN
    IF Len(pushed) > max_lines THEN Tail(pushed) ELSE pushed

\* MessageBox::new
NewMessageBox(max_lines) ==
    /\ message_box = None
    /\ message_box' = Some([lines |-> <<>>, max_lines |-> max_lines])
    /\ UNCHANGED <<gui_vars, draw_2d_vars, main_loop_vars, added_lines, button_result>>

AddLine(color, line) ==
    /\ message_box # None
    /\ Len(added_lines) < MaxAdded
    /\ message_box' = Some([message_box[1] EXCEPT
                               !.lines = add_line(@, message_box[1].max_lines, color, line)])
    /\ added_lines' = Append(added_lines, <<line, color>>)
    /\ UNCHANGED <<gui_vars, draw_2d_vars, main_loop_vars, button_result>>

\* Button::update pressed by a MouseDown of any button.
RECURSIVE button_update_any_button(_, _)
button_update_any_button(events_, i) ==
    IF i > Len(events_) THEN FALSE
    ELSE IF events_[i].type = "MouseDown" THEN TRUE
    ELSE IF events_[i].type = "KeyDown" /\ events_[i].key.key \in {"Enter", " "} THEN TRUE
    ELSE button_update_any_button(events_, i + 1)

\* Button::update: the loop over the events from index i on, as the
\* pressed flag it ends with; the two breaks end it with TRUE.
RECURSIVE button_update(_, _)
button_update(events_, i) ==
    IF i > Len(events_) THEN FALSE
    ELSE IF events_[i].type = "MouseDown" /\ events_[i].button = "Left" THEN TRUE
    ELSE IF events_[i].type = "KeyDown"
            /\ (events_[i].key.key = "Enter" \/ events_[i].key.key = " ") THEN TRUE
    ELSE button_update(events_, i + 1)

ButtonUpdate(events_) ==
    /\ button_result' = Some([events |-> events_, pressed |-> button_update(events_, 1)])
    /\ UNCHANGED <<gui_vars, draw_2d_vars, main_loop_vars, message_box, added_lines>>

\* Two texts, one of them in two colours.
NextMessageBox ==
    \/ \E max_lines \in 0 .. MaxLines : NewMessageBox(max_lines)
    \/ \E entry \in {<<"WHITE", "a">>, <<"WHITE", "b">>, <<"BLACK", "a">>} :
          AddLine(entry[1], entry[2])

SpecMessageBox == Init /\ [][NextMessageBox]_vars

\* What a bucket of a button can hold: clicks, releases and moves as
\* delivered, the keys that press and keys that do not, and broadcast
\* events.
NextButton ==
    \E events_ \in SeqsUpTo({MouseDown("Left", <<0, 0>>), MouseDown("Right", <<0, 0>>),
                             MouseUp("Left", <<0, 0>>), MouseMove(<<0, 0>>, <<1, 0>>),
                             KeyDown(Key("Enter", FALSE)), KeyDown(Key(" ", FALSE)),
                             KeyDown(Tab), KeyDown(KeyA), KeyUp(Key("Enter", FALSE)),
                             Plain("FocusGained"), Scroll(1)}, MaxBatch) :
       ButtonUpdate(events_)

SpecButton == Init /\ [][NextButton]_vars

---------------------------------------------------------------------------
(* Vocabulary of the properties.                                           *)

\* A loop iteration of the running (or just finished) call has executed.
Stepped == history # <<>>
\* The record of the latest iteration.
Last == history[Len(history)]

BucketLen(out, w) == IF w \in DOMAIN out THEN Len(out[w]) ELSE 0
\* The components whose bucket the latest iteration appended to.
Recipients == {w \in DOMAIN events_out : Len(events_out[w]) > BucketLen(Last.events_out, w)}
\* The last event in the bucket of w.
Delivered(w) == events_out[w][Len(events_out[w])]

RECURSIVE PreOrder(_)
RECURSIVE PreOrderAll(_, _)
PreOrderAll(children, i) ==
    IF i > Len(children) THEN <<>>
    ELSE PreOrder(children[i]) \o PreOrderAll(children, i + 1)
\* The widgets of a tree, parent before children, children in order.
PreOrder(widget) == <<widget>> \o PreOrderAll(widget.children, 1)

IsComponent(w) == w.is_component
\* The components of the stored tree in pre-order.
StoredComponents == SelectSeq(PreOrder(last_render[1].widget), IsComponent)
StoredRect(w) == last_render[1].widget_rects[w.id]
\* The components of the stored tree whose stored rectangle contains pos.
Hits(pos) ==
    LET Contains(w) == contains_point(StoredRect(w), pos) IN
    SelectSeq(StoredComponents, Contains)

IsLeftDown(event) == event.type = "MouseDown" /\ event.button = "Left"
IsMouse(event) == event.type \in {"MouseDown", "MouseUp", "MouseMove"}
InList(id, ordered) == \E i \in DOMAIN ordered : ordered[i] = id
ActiveId(active) == IF active = None THEN None ELSE Some(active[1][2])

---------------------------------------------------------------------------
(* Properties.                                                             *)

\* C1: after a Left MouseDown whose position lies inside the stored
\* rectangle of a component C, the first such component in pre-order, with
\* C listed in ordered_components, the active component is
\* (position of C in ordered_components, C), whatever it was before.
C1_ClickToFocus ==
    (Stepped /\ IsLeftDown(Last.event) /\ Hits(Last.event.pos) # <<>>
       /\ InList(Head(Hits(Last.event.pos)).id, ordered_components))
    => LET c == Head(Hits(Last.event.pos)).id IN
       active_component = Some(<<position(ordered_components, c)[1], c>>)

\* C2: a KeyDown or KeyUp is appended to no bucket other than that of the
\* component that is the session's active component when the event is
\* processed, and to none at all if no component is active.
C2_KeyboardRouting ==
    (Stepped /\ Last.event.type \in {"KeyDown", "KeyUp"})
    => \A w \in Recipients : Last.active_component # None /\ Last.active_component[1][2] = w

\* events_out as iteration i left it.
OutAfter(i) == IF i < Len(history) THEN history[i + 1].events_out ELSE events_out
\* The events of iterations 1..n that were neither appended to a bucket nor
\* intercepted as navigation, in order.
RECURSIVE Leftover(_)
Leftover(n) ==
    IF n = 0 THEN <<>>
    ELSE IF OutAfter(n) # history[n].events_out \/ history[n].navigated
         THEN Leftover(n - 1)
         ELSE Append(Leftover(n - 1), history[n].event)

\* C3: the unhandled list of the result of a call with a stored tree holds
\* exactly the events that were not appended to a bucket and not
\* intercepted as Tab/Shift+Tab, and no event is in both a bucket and the
\* unhandled list.
C3_Partition ==
    (pc = "returned" /\ last_render # None)
    => result[1].unhandled_events = Leftover(Len(history))

\* C4: a Tab or Shift+Tab KeyDown that was appended to a component's bucket
\* does not cycle the focus.
C4_NavigationFallThrough ==
    (Stepped /\ is_tab(Last.event) /\ Recipients # {})
    => active_component = Last.active_component

\* C5: with the active component at index i of a list of n >= 1 components,
\* 0 <= i < n, Tab makes the active component ((i+1) mod n, list[(i+1) mod n])
\* and Shift+Tab ((i-1+n) mod n, list[(i-1+n) mod n]).
C5_FocusCycling ==
    (Stepped /\ is_tab(Last.event) /\ Last.active_component # None
       /\ Last.active_component[1][1] \in 0 .. (Len(ordered_components) - 1))
    => LET i == Last.active_component[1][1]
           n == Len(ordered_components)
           j == IF Last.event.key.shift THEN (i - 1 + n) % n ELSE (i + 1) % n
       IN  active_component = Some(<<j, ordered_components[j + 1]>>)

\* Shift+Tab from index 0 of three components has wrapped to index 2.
C5_Witness ==
    /\ Stepped /\ Last.event = KeyDown(ShiftTab)
    /\ Last.active_component = Some(<<0, 1>>)
    /\ ordered_components = <<1, 2, 3>>
    /\ active_component = Some(<<2, 3>>)

\* C6: when handle_events has returned, an active component (i, id) has
\* 0 <= i < len(ordered_components) and ordered_components[i] = id for the
\* list passed to that call.
C6_ActiveConsistent ==
    (pc = "returned" /\ active_component # None)
    => /\ active_component[1][1] \in 0 .. (Len(ordered_components) - 1)
       /\ ordered_components[active_component[1][1] + 1] = active_component[1][2]

\* The event now being processed: the one ProcessEvent appends to events.
Processed == events'[Len(events')]
\* The step is a loop iteration whose event is focus-changing: a Left
\* MouseDown that a component took, or a Tab/Shift+Tab KeyDown.
FocusStep ==
    /\ pc = "loop" /\ Len(events') = Len(events) + 1
    /\ \/ is_tab(Processed)
       \/ IsLeftDown(Processed) /\ events_out' # events_out

\* C7: a new Gui has no active component, and the active component changes
\* only in a loop iteration that processes a Left MouseDown taken by a
\* component or a Tab/Shift+Tab KeyDown; every other event, and draw, leave
\* it unchanged.
C7_FocusTransitions ==
    /\ active_component = None
    /\ [][active_component' # active_component => FocusStep]_vars

\* A Right MouseDown inside the active button and a KeyUp of Tab have been
\* processed and the active component is what it was.
C7_Witness ==
    /\ Len(history) = 2
    /\ history[1].event = MouseDown("Right", PointIn2) /\ history[1].handled
    /\ history[2].event = KeyUp(Tab) /\ history[2].handled
    /\ history[1].active_component = Some(<<1, 2>>)
    /\ active_component = Some(<<1, 2>>)

Broadcast == {"FocusGained", "FocusLost", "WindowResized", "Scroll"}

\* C8: a FocusGained, FocusLost, WindowResized or Scroll event routed over a
\* stored tree with at least one component is appended, unchanged, to the
\* bucket of the first component in pre-order and to no other bucket.
C8_FirstMatch ==
    (Stepped /\ Last.event.type \in Broadcast /\ StoredComponents # <<>>)
    => /\ Recipients = {Head(StoredComponents).id}
       /\ Len(events_out[Head(StoredComponents).id])
            = BucketLen(Last.events_out, Head(StoredComponents).id) + 1
       /\ Delivered(Head(StoredComponents).id) = Last.event

\* A Scroll went to button 1 of the three-button form although button 2 is
\* the active one.
C8_Witness ==
    /\ Stepped /\ Last.event = Scroll(1)
    /\ Len(StoredComponents) = 3
    /\ Last.active_component_id = Some(2)
    /\ Recipients = {1}

\* The event a component whose rectangle starts at `start` is handed for
\* the mouse event `event`.
Translated(event, start) == [event EXCEPT !.pos = VSub(event.pos, start)]

\* C9: a MouseDown, MouseUp or MouseMove is appended to the bucket of the
\* first component in pre-order whose stored rectangle contains its
\* position, and to no bucket if there is none; the delivered event is the
\* original with the rectangle's start subtracted from its position;
\* MouseUp and MouseMove leave the active component unchanged.
C9_MouseHitTest ==
    (Stepped /\ IsMouse(Last.event))
    => LET hits == Hits(Last.event.pos) IN
       /\ IF hits = <<>> THEN Recipients = {}
          ELSE /\ Recipients = {Head(hits).id}
               /\ Len(events_out[Head(hits).id])
                    = BucketLen(Last.events_out, Head(hits).id) + 1
               /\ Delivered(Head(hits).id)
                    = Translated(Last.event, StoredRect(Head(hits)).start)
       /\ Last.event.type \in {"MouseUp", "MouseMove"}
            => /\ active_component = Last.active_component
               /\ active_component_id = Last.active_component_id

\* A MouseMove at (6,5) reached button 2 of the form, whose rectangle starts
\* at (4,2), as a MouseMove at (2,3) with the same movement, after a click
\* on the label reached nobody.
C9_Witness ==
    /\ Len(history) = 2
    /\ history[1].event = MouseDown("Left", PointOut) /\ ~history[1].handled
    /\ Last.event = MouseMove(PointIn2, <<1, -1>>)
    /\ Recipients = {2}
    /\ Delivered(2) = MouseMove(<<2, 3>>, <<1, -1>>)
    /\ Len(StoredComponents) = 3

Filtered == {"MouseEnter", "MouseLeave", "PointerLocked", "PointerUnlocked"}

IsFiltered(event) == event.type \in Filtered

\* C10: a MouseEnter, MouseLeave, PointerLocked or PointerUnlocked event is
\* appended to no bucket, and each of them is in the unhandled list (the
\* unhandled list holds them all, in order).
C10_FilteredEvents ==
    /\ \A i \in DOMAIN history :
          IsFiltered(history[i].event) => OutAfter(i) = history[i].events_out
    /\ SelectSeq(unhandled_events, IsFiltered) = SelectSeq(events, IsFiltered)
    /\ pc = "returned" =>
          /\ SelectSeq(result[1].unhandled_events, IsFiltered) = SelectSeq(events, IsFiltered)
          /\ \A w \in DOMAIN result[1].component_events :
                SelectSeq(result[1].component_events[w], IsFiltered) = <<>>

\* A PointerLocked was processed over the overlapping buttons while button 1
\* was active, and the call returned it as unhandled.
C10_Witness ==
    /\ pc = "returned" /\ Stepped
    /\ Last.event = Plain("PointerLocked")
    /\ Last.active_component_id = Some(1)
    /\ Len(StoredComponents) = 2
    /\ result[1].unhandled_events = <<Plain("PointerLocked")>>
    /\ result[1].component_events = EmptyMap

\* unhandled_events as iteration i left it.
UnhandledAfter(i) ==
    IF i < Len(history) THEN history[i + 1].unhandled_events ELSE unhandled_events
Bucket(out, w) == IF w \in DOMAIN out THEN out[w] ELSE <<>>

\* C11: the iterations take the events in slice order, and each iteration
\* leaves every bucket and the unhandled list as it found them or with one
\* element, its own event, added at the end; so every bucket and the
\* unhandled list of the result are in the order of the batch.
C11_OrderPreserved ==
    /\ \A i \in DOMAIN history :
          /\ history[i].event = events[i]
          /\ \A w \in DOMAIN OutAfter(i) :
                LET after == OutAfter(i)[w]
                    before == Bucket(history[i].events_out, w)
                IN  \/ after = before
                    \/ /\ Len(after) = Len(before) + 1
                       /\ SubSeq(after, 1, Len(after) - 1) = before
                       /\ after[Len(after)].type = history[i].event.type
          /\ DOMAIN history[i].events_out \subseteq DOMAIN OutAfter(i)
          /\ UnhandledAfter(i) \in {history[i].unhandled_events,
                                    Append(history[i].unhandled_events, history[i].event)}
    /\ (pc = "returned" /\ last_render # None)
          => result = Some(GuiEventResult(events_out, unhandled_events))

\* A FocusGained and then a Scroll were returned in button 1's bucket and in
\* the unhandled list, both in that order.
C11_Witness ==
    /\ pc = "returned"
    /\ events = <<Plain("FocusGained"), Scroll(1)>>
    /\ Bucket(result[1].component_events, 1) = <<Plain("FocusGained"), Scroll(1)>>
    /\ result[1].unhandled_events = <<Plain("FocusGained"), Scroll(1)>>

\* C12: when no tree was ever drawn, handle_events returns the whole batch,
\* in order, as unhandled, with an empty per-component map, and the active
\* component stays None.
C12_NoRender ==
    (pc = "returned" /\ last_render = None)
    => /\ result = Some(GuiEventResult(EmptyMap, events))
       /\ active_component = None

\* A Tab and a click were handed to a session that never drew, and came
\* back unhandled.
C12_Witness ==
    /\ pc = "returned" /\ last_render = None
    /\ events = <<KeyDown(Tab), MouseDown("Left", PointIn1)>>
    /\ result[1].unhandled_events = events
    /\ ordered_components = <<1, 2, 3>>

\* The ids of the widgets of a tree.
WidgetIds(widget) ==
    LET order == PreOrder(widget) IN {order[i].id : i \in DOMAIN order}

\* C13: handle_events routes against the tree and rect map of the most
\* recent Gui::draw and nothing else: the stored tree and rect map are
\* those the latest draw was given and computed, only ids of that tree are
\* keys of the per-component map, and a mouse event reaches only a
\* component whose rectangle in that draw's rect map contains its position.
C13_PreviousFrame ==
    /\ last_render = IF drawn = None THEN None
                     ELSE Some([widget |-> drawn[1].widget,
                                widget_rects |-> drawn[1].widget_rects])
    /\ (drawn # None /\ pc # "idle")
       => /\ DOMAIN events_out \subseteq WidgetIds(drawn[1].widget)
          /\ (Stepped /\ IsMouse(Last.event))
             => \A w \in Recipients :
                   contains_point(drawn[1].widget_rects[w], Last.event.pos)

\* After a draw of the form, in which a click made button 1 active, and a
\* later draw of the lone label, the same click reaches nobody.
C13_Witness ==
    /\ drawn # None /\ drawn[1].widget = SceneLabel.widget
    /\ active_component = Some(<<0, 1>>)
    /\ Stepped /\ Last.event = MouseDown("Left", PointIn1)
    /\ Recipients = {} /\ events_out = EmptyMap

\* C19: a call of handle_events whose ordered_components holds an id that
\* has no entry in the stored rect map does not return a result, and no Tab
\* or Shift+Tab makes such an id the active component.
C19_MissingIdFatal ==
    /\ (pc = "returned" /\ last_render # None)
       => \A i \in DOMAIN ordered_components :
             ordered_components[i] \in DOMAIN last_render[1].widget_rects
    /\ (Stepped /\ Last.navigated)
       => active_component[1][2] \in DOMAIN last_render[1].widget_rects

\* C20: Gui::draw calls Widget::draw once for every widget of the new tree,
\* in pre-order, each with the rectangle the new rect map records for it,
\* and with is_active true exactly for the widget whose id is the active
\* component's id at the time of the call.
C20_DrawOrder ==
    draw_calls # <<>>
    => LET widgets == PreOrder(drawn[1].widget) IN
       /\ Len(draw_calls) = Len(widgets)
       /\ \A i \in DOMAIN widgets :
             draw_calls[i] = DrawCall(widgets[i].id,
                                      drawn[1].widget_rects[widgets[i].id],
                                      ActiveId(active_component) = Some(widgets[i].id))

\* The form drawn while button 2 is active: six calls, the fifth for
\* button 2 and the only one with is_active.
C20_Witness ==
    /\ drawn # None /\ drawn[1].widget = SceneForm.widget
    /\ active_component = Some(<<1, 2>>)
    /\ Len(draw_calls) = 6
    /\ draw_calls[1].id = 4 /\ draw_calls[5].id = 2
    /\ {i \in DOMAIN draw_calls : draw_calls[i].is_active} = {5}

\* C14: after the rect pass of Gui::draw over a tree of the provided
\* widgets with unique ids, the rect map has an entry for every widget id
\* of the tree and for no other id.
C14_RectCoverage ==
    drawn # None => DOMAIN drawn[1].widget_rects = WidgetIds(drawn[1].widget)

\* An Overlap of an Inset of a label and a second label: four widgets, four
\* entries.
C14_Witness ==
    /\ drawn # None
    /\ drawn[1].widget = Relabel(Overlap(0, <<Inset(0, LayoutLabel), LayoutLabel>>), 1).widget
    /\ DOMAIN drawn[1].widget_rects = 1 .. 4

\* Every corner of inner lies within outer, its edges included.
RectContains(outer, inner) ==
    /\ inner.start[1] >= outer.start[1] /\ inner.start[2] >= outer.start[2]
    /\ inner.end[1] <= outer.end[1]     /\ inner.end[2] <= outer.end[2]

\* C15: after a rect pass under a non-negative theme padding, the rectangle
\* recorded for an Overlap, Inset or NoFill contains the rectangle recorded
\* for each of its direct children, whatever the child's kind.
C15_RectContainment ==
    (drawn # None /\ drawn[1].theme.padding >= 0)
    => LET widgets == PreOrder(drawn[1].widget) IN
       \A i \in DOMAIN widgets :
          widgets[i].kind \in {"Overlap", "Inset", "NoFill"}
          => \A j \in DOMAIN widgets[i].children :
                RectContains(drawn[1].widget_rects[widgets[i].id],
                             drawn[1].widget_rects[widgets[i].children[j].id])

RECURSIVE SumInts(_)
SumInts(q) == IF q = <<>> THEN 0 ELSE Head(q) + SumInts(Tail(q))

\* The main axis of a Row is x, of a Col y.
MainAxis(widget) == IF widget.kind = "Row" THEN 1 ELSE 2
\* The Rows and Cols of the drawn tree.
DrawnStacks ==
    {w \in {PreOrder(drawn[1].widget)[i] : i \in DOMAIN PreOrder(drawn[1].widget)} :
        w.kind \in {"Row", "Col"}}
\* The extra space of a drawn Row or Col: its allocated main-axis size minus
\* its min main-axis size.
ExtraSpace(w) ==
    RectSize(drawn[1].widget_rects[w.id])[MainAxis(w)] - drawn[1].min_sizes[w.id][MainAxis(w)]
TotalFlex(w) == F64Sum(w.flex, [i |-> 1, sum |-> F64Zero])
\* The extra shares of the children of a drawn Row or Col.
Shares(w) == [i \in DOMAIN w.children |-> widget_extra_space(ExtraSpace(w), w.flex[i], TotalFlex(w))]

\* C16: for a Row or Col with n children, non-negative weights of total
\* F > 0 and extra space E >= 0, the extra shares sum to more than E - n and
\* at most E; and with leaf children the trailing edge of the last child is
\* less than n short of the far edge of the container, never beyond it.
C16_FlexDeficit ==
    drawn # None
    => \A w \in DrawnStacks :
          (/\ \A i \in DOMAIN w.flex : ~w.flex[i].neg
           /\ ~F64IsZero(TotalFlex(w)) /\ ~TotalFlex(w).neg
           /\ ExtraSpace(w) >= 0)
          => LET n == Len(w.children)
                 deficit == ExtraSpace(w) - SumInts(Shares(w))
                 last == drawn[1].widget_rects[w.children[n].id]
                 short == drawn[1].widget_rects[w.id].end[MainAxis(w)] - last.end[MainAxis(w)]
             IN  /\ 0 <= deficit /\ deficit < n
                 /\ (\A i \in DOMAIN w.children : w.children[i].children = <<>>)
                    => (0 <= short /\ short < n)

\* C17: a Row of two children with weights 1 and 3 and min sizes (10,5)
\* and (20,5), laid into [(0,0),(100,5)], gives the first x in [0,27] and
\* the second x in [27,99], both of height 5; the Row's own rectangle is the
\* whole 100 x 5 rectangle, and the occupied width is 99.
C17_FlexScenario ==
    (drawn # None /\ drawn[1].widget = SceneFlex13.widget /\ drawn[1].size = <<100, 5>>)
    => /\ drawn[1].min_sizes[2] = <<10, 5>> /\ drawn[1].min_sizes[3] = <<20, 5>>
       /\ drawn[1].widget_rects[1] = Rect(<<0, 0>>, <<100, 5>>)
       /\ drawn[1].widget_rects[2] = Rect(<<0, 0>>, <<27, 5>>)
       /\ drawn[1].widget_rects[3] = Rect(<<27, 0>>, <<99, 5>>)
       /\ Shares(SceneFlex13.widget) = <<17, 52>>

\* The scenario was drawn.
C17_Witness ==
    /\ drawn # None /\ drawn[1].widget = SceneFlex13.widget /\ drawn[1].size = <<100, 5>>
    /\ ExtraSpace(SceneFlex13.widget) = 70
    /\ last_render[1].widget_rects[3].end = <<99, 5>>

\* In both dimensions the min size of every drawn Row and Col is at least
\* the min size of each of its children.
MinSizeMonotone ==
    \A w \in DrawnStacks : \A i \in DOMAIN w.children :
       /\ drawn[1].min_sizes[w.id][1] >= drawn[1].min_sizes[w.children[i].id][1]
       /\ drawn[1].min_sizes[w.id][2] >= drawn[1].min_sizes[w.children[i].id][2]

\* C18 as stated: for every Col and Row, in both dimensions, the computed
\* min size is never less than that of any single child, under any integer
\* theme padding.
C18_MinSizeAnyPadding == drawn # None => MinSizeMonotone

\* C18, amended: the same under a non-negative theme padding.
C18_MinSizeMonotone ==
    (drawn # None /\ drawn[1].theme.padding >= 0) => MinSizeMonotone

\* A Row of a 2 x 2 label and a Padding under padding 1: min size (3,2).
C18_Witness ==
    /\ drawn # None /\ drawn[1].theme.padding = 1
    /\ drawn[1].widget.kind = "Row" /\ Len(drawn[1].widget.children) = 2
    /\ drawn[1].min_sizes[1] = <<3, 2>>
    /\ drawn[1].min_sizes[2] = <<2, 2>> /\ drawn[1].min_sizes[3] = <<1, 1>>

\* The calls before the i-th that asked for what the i-th asks for.
Earlier(i) ==
    {j \in 1 .. i - 1 : consumed[j].op = consumed[i].op /\ consumed[j].id = consumed[i].id}
\* The components update_component was called for.
Updated == {consumed[i].id : i \in {j \in DOMAIN consumed : consumed[j].op = "update_component"}}

\* C21: on the result handle_events returned, update_component hands a
\* component the events of its bucket (none if it has no bucket) and
\* removes the bucket, so a later update_component for that component hands
\* it none; unhandled_events returns the unhandled list and empties it, so a
\* later call returns none; and what is left in the result is the returned
\* buckets of the components not yet updated, and the returned unhandled
\* list until unhandled_events was called.
C21_ConsumedOnce ==
    pc = "returned"
    => /\ \A i \in DOMAIN consumed :
             consumed[i].events =
                IF Earlier(i) # {} THEN <<>>
                ELSE IF consumed[i].op = "unhandled_events" THEN unhandled_events
                ELSE Bucket(events_out, consumed[i].id)
       /\ result[1].unhandled_events =
             IF \E i \in DOMAIN consumed : consumed[i].op = "unhandled_events"
             THEN <<>> ELSE unhandled_events
       /\ DOMAIN result[1].component_events = DOMAIN events_out \ Updated
       /\ \A w \in DOMAIN result[1].component_events :
             result[1].component_events[w] = events_out[w]

\* After a click on button 1 and a move over button 2: button 1 was updated
\* twice and the unhandled list taken twice, each time with events first and
\* none second, and button 2's bucket is still in the result.
C21_Witness ==
    /\ pc = "returned"
    /\ events = <<MouseDown("Left", PointIn1), MouseMove(PointIn2, <<1, -1>>)>>
    /\ Len(consumed) = 4
    /\ consumed[1].op = "update_component" /\ consumed[1].id = 1 /\ Len(consumed[1].events) = 1
    /\ consumed[2] = Access("update_component", 1, <<>>)
    /\ consumed[3] = Access("unhandled_events", 0, events)
    /\ consumed[4] = Access("unhandled_events", 0, <<>>)
    /\ DOMAIN result[1].component_events = {2}
    /\ Len(result[1].component_events[2]) = 1

RECURSIVE PostOrder(_)
RECURSIVE PostOrderAll(_, _)
PostOrderAll(children, i) ==
    IF i > Len(children) THEN <<>>
    ELSE PostOrder(children[i]) \o PostOrderAll(children, i + 1)
\* The widgets of a tree, children in order and before their parent.
PostOrder(widget) == PostOrderAll(widget.children, 1) \o <<widget>>

\* C22: the min-size pass of Gui::draw calls Widget::min_size once per
\* widget, in post-order; at each call the map holds an entry for every
\* widget below the one asked; and the map the rect pass is given has an
\* entry for every widget id of the tree.
C22_MinSizePassOrder ==
    drawn # None
    => LET widgets == PostOrder(drawn[1].widget)
           calls == drawn[1].min_size_calls
       IN  /\ Len(calls) = Len(widgets)
           /\ \A i \in DOMAIN widgets :
                 /\ calls[i].id = widgets[i].id
                 /\ WidgetIds(widgets[i]) \ {widgets[i].id} \subseteq calls[i].known
           /\ DOMAIN drawn[1].min_sizes = WidgetIds(drawn[1].widget)

\* A Row (1) of a Col (2) of two labels (3, 4) and a label (5): min_size is
\* asked of 3, 4, 2, 5, 1, of the Col when the map holds 3 and 4 and of the
\* Row when it holds all the others.
C22_Witness ==
    /\ drawn # None
    /\ drawn[1].widget.kind = "Row"
    /\ [i \in DOMAIN drawn[1].min_size_calls |-> drawn[1].min_size_calls[i].id]
          = <<3, 4, 2, 5, 1>>
    /\ drawn[1].min_size_calls[3].known = {3, 4}
    /\ drawn[1].min_size_calls[5].known = {2, 3, 4, 5}

\* The min sizes of the children of a drawn widget along one axis.
ChildMinSizes(w, axis) ==
    [i \in DOMAIN w.children |-> drawn[1].min_sizes[w.children[i].id][axis]]
\* The largest of 0 and the elements of q.
MaxFromZero(q) == SetMax({0} \cup {q[i] : i \in DOMAIN q})

\* C23: the min size of a Col is (the largest of 0 and its children's min
\* widths, the sum of their min heights), that of a Row (the sum of the min
\* widths, the largest of 0 and the min heights); without children both
\* are (0,0).
C23_StackMinSize ==
    drawn # None
    => \A w \in DrawnStacks :
          /\ drawn[1].min_sizes[w.id] =
                IF w.kind = "Col"
                THEN <<MaxFromZero(ChildMinSizes(w, 1)), SumInts(ChildMinSizes(w, 2))>>
                ELSE <<SumInts(ChildMinSizes(w, 1)), MaxFromZero(ChildMinSizes(w, 2))>>
          /\ w.children = <<>> => drawn[1].min_sizes[w.id] = <<0, 0>>

\* A Col of two Paddings under the theme padding -1: each child has min
\* size (-1,-1), the Col (0,-2).
C23_Witness ==
    /\ drawn # None /\ drawn[1].theme.padding = -1
    /\ drawn[1].widget.kind = "Col"
    /\ Len(drawn[1].widget.children) = 2
    /\ ChildMinSizes(drawn[1].widget, 1) = <<-1, -1>>
    /\ drawn[1].min_sizes[1] = <<0, -2>>

\* The rectangle a drawn widget's compute_rects was called with, and the
\* one it recorded.
Allocated(w) == drawn[1].allocated[w.id]
Recorded(w) == drawn[1].widget_rects[w.id]
CrossAxis(w) == 3 - MainAxis(w)
\* The point at `main` along the main axis of w and `cross` along the other.
AlongMain(w, main, cross) == IF MainAxis(w) = 1 THEN <<main, cross>> ELSE <<cross, main>>
\* The sum of the first k elements of q.
SumFirst(q, k) == SumInts([i \in 1 .. k |-> q[i]])

\* C24: a Row or Col whose weights sum to 0 records for itself the
\* rectangle from the allocated start, of its min size along the main axis
\* and of the allocated size across; each child is allocated, from the
\* allocated start on and one after the other, its own min size along the
\* main axis and the allocated size across, whatever the allocated size
\* along the main axis.
C24_ZeroFlexStacking ==
    drawn # None
    => \A w \in DrawnStacks :
          F64IsZero(TotalFlex(w))
          => LET m == MainAxis(w)
                 c == CrossAxis(w)
                 given == Allocated(w)
                 mins == ChildMinSizes(w, m)
             IN  /\ Recorded(w) =
                       Rect(given.start,
                            VAdd(given.start,
                                 AlongMain(w, drawn[1].min_sizes[w.id][m], RectSize(given)[c])))
                 /\ \A k \in DOMAIN w.children :
                       Allocated(w.children[k]) =
                          Rect(VAdd(given.start, AlongMain(w, SumFirst(mins, k - 1), 0)),
                               VAdd(given.start,
                                    AlongMain(w, SumFirst(mins, k), RectSize(given)[c])))

\* A Row of two 2 x 2 labels of weight 0 on the 12 x 6 surface: the Row
\* records 4 x 6 of the 12 x 6 it is allocated, and the labels are
\* allocated x in [0,2] and [2,4], both 6 high.
C24_Witness ==
    /\ drawn # None /\ drawn[1].size = <<12, 6>>
    /\ drawn[1].widget.kind = "Row"
    /\ F64IsZero(TotalFlex(drawn[1].widget))
    /\ drawn[1].allocated[1] = Rect(<<0, 0>>, <<12, 6>>)
    /\ drawn[1].widget_rects[1] = Rect(<<0, 0>>, <<4, 6>>)
    /\ drawn[1].allocated[2] = Rect(<<0, 0>>, <<2, 6>>)
    /\ drawn[1].allocated[3] = Rect(<<2, 0>>, <<4, 6>>)

\* The extra space of a drawn Row or Col by the rectangle it was allocated.
AllocatedExtra(w) ==
    RectSize(Allocated(w))[MainAxis(w)] - drawn[1].min_sizes[w.id][MainAxis(w)]
\* The main-axis extent of each child of a drawn Row or Col: its min size
\* plus its share of the extra space.
Extents(w) ==
    [k \in DOMAIN w.children |->
        ChildMinSizes(w, MainAxis(w))[k]
        + widget_extra_space(AllocatedExtra(w), w.flex[k], TotalFlex(w))]

\* C25: a Row or Col of total weight F > 0 records the rectangle it was
\* allocated; child k is allocated its min size plus its share of the extra
\* space E along the main axis and the allocated size across, from where
\* child k-1 ends (the first from the allocated start); and when E >= 0
\* every child is allocated at least its min size along the main axis.
C25_FlexStacking ==
    drawn # None
    => \A w \in DrawnStacks :
          (~F64IsZero(TotalFlex(w)) /\ ~TotalFlex(w).neg)
          => LET m == MainAxis(w)
                 given == Allocated(w)
                 across == RectSize(given)[CrossAxis(w)]
                 extents == Extents(w)
             IN  /\ Recorded(w) = given
                 /\ \A k \in DOMAIN w.children :
                       /\ Allocated(w.children[k]) =
                             Rect(VAdd(given.start, AlongMain(w, SumFirst(extents, k - 1), 0)),
                                  VAdd(given.start,
                                       AlongMain(w, SumFirst(extents, k), across)))
                       /\ k > 1 => Allocated(w.children[k]).start[m]
                                      = Allocated(w.children[k - 1]).end[m]
                       /\ AllocatedExtra(w) >= 0
                          => RectSize(Allocated(w.children[k]))[m]
                                >= ChildMinSizes(w, m)[k]

\* A Col of two 2 x 2 labels of weights 1 and 3 on the 12 x 6 surface: of
\* the extra height 2 the first gets 0 and the second 1, so they are
\* allocated y in [0,2] and [2,5], both 12 wide.
C25_Witness ==
    /\ drawn # None /\ drawn[1].size = <<12, 6>>
    /\ drawn[1].widget.kind = "Col"
    /\ drawn[1].widget.flex = <<F64One, F64FromI32(3)>>
    /\ AllocatedExtra(drawn[1].widget) = 2
    /\ drawn[1].widget_rects[1] = Rect(<<0, 0>>, <<12, 6>>)
    /\ drawn[1].allocated[2] = Rect(<<0, 0>>, <<12, 2>>)
    /\ drawn[1].allocated[3] = Rect(<<0, 2>>, <<12, 5>>)

\* The widgets of one kind in the drawn tree.
DrawnOfKind(kind) ==
    {w \in {PreOrder(drawn[1].widget)[i] : i \in DOMAIN PreOrder(drawn[1].widget)} :
        w.kind = kind}

\* C26: an Inset's min size is its child's plus twice the theme padding on
\* each axis; the rectangle it records for itself starts at the allocated
\* start, has that min size, and lies within the rectangle it was
\* allocated; its child is allocated the Inset's allocated rectangle shrunk
\* by the theme padding on all four sides.
C26_InsetRectPolicy ==
    drawn # None
    => \A w \in DrawnOfKind("Inset") :
          LET padding == drawn[1].theme.padding
              given == Allocated(w)
              min_sz == drawn[1].min_sizes[w.id]
          IN  /\ min_sz = VAdd(drawn[1].min_sizes[w.children[1].id],
                               <<2 * padding, 2 * padding>>)
              /\ Recorded(w) = Rect(given.start, VAdd(given.start, min_sz))
              /\ RectContains(given, Recorded(w))
              /\ Allocated(w.children[1]) =
                    Rect(VAdd(given.start, <<padding, padding>>),
                         VSub(given.end, <<padding, padding>>))

\* C27: a NoFill's min size is its child's; the rectangle it records for
\* itself is the one from the allocated start with that min size as its
\* size, and its child is allocated the same rectangle, whatever the size
\* of the rectangle the NoFill was allocated.
C27_NoFillRectPolicy ==
    drawn # None
    => \A w \in DrawnOfKind("NoFill") :
          LET min_sz == drawn[1].min_sizes[w.id]
              clipped == Rect(Allocated(w).start, VAdd(Allocated(w).start, min_sz))
          IN  /\ min_sz = drawn[1].min_sizes[w.children[1].id]
              /\ Recorded(w) = clipped
              /\ Allocated(w.children[1]) = clipped

\* A NoFill of a 2 x 2 label on the 12 x 6 surface: allocated the surface,
\* it records [(0,0),(2,2)] and hands the label the same.
C27_Witness ==
    /\ drawn # None /\ drawn[1].size = <<12, 6>>
    /\ drawn[1].widget.kind = "NoFill"
    /\ drawn[1].widget.children[1].kind = "Label"
    /\ drawn[1].allocated[1] = Rect(<<0, 0>>, <<12, 6>>)
    /\ drawn[1].widget_rects[1] = Rect(<<0, 0>>, <<2, 2>>)
    /\ drawn[1].allocated[2] = Rect(<<0, 0>>, <<2, 2>>)

\* C28: an Overlap's min size is, on each axis, the largest of 0 and its
\* children's min sizes; the rectangle it records for itself is the one it
\* was allocated, and every child is allocated that same rectangle.
C28_OverlapPolicy ==
    drawn # None
    => \A w \in DrawnOfKind("Overlap") :
          /\ drawn[1].min_sizes[w.id] =
                <<MaxFromZero(ChildMinSizes(w, 1)), MaxFromZero(ChildMinSizes(w, 2))>>
          /\ Recorded(w) = Allocated(w)
          /\ \A k \in DOMAIN w.children : Allocated(w.children[k]) = Allocated(w)

\* An Overlap of a Row (of a 2 x 2 label and a Padding, under padding 1) and
\* a label on the 5 x 5 surface: min size (3,2), and the Row and the label
\* are both allocated the surface.
C28_Witness ==
    /\ drawn # None /\ drawn[1].size = <<5, 5>> /\ drawn[1].theme.padding = 1
    /\ drawn[1].widget.kind = "Overlap"
    /\ Len(drawn[1].widget.children) = 2
    /\ drawn[1].widget.children[1].kind = "Row"
    /\ drawn[1].min_sizes[1] = <<3, 2>>
    /\ drawn[1].widget_rects[1] = Rect(<<0, 0>>, <<5, 5>>)
    /\ drawn[1].allocated[2] = Rect(<<0, 0>>, <<5, 5>>)
    /\ drawn[1].allocated[5] = Rect(<<0, 0>>, <<5, 5>>)

\* The components of the stored tree that lie below a component.
InnerComponents ==
    UNION {{d \in WidgetIds(w) \ {w.id} :
               \E i \in DOMAIN StoredComponents : StoredComponents[i].id = d} :
           w \in {StoredComponents[i] : i \in DOMAIN StoredComponents}}

\* C29: over a stored tree with a component below a component, the inner
\* component's bucket never receives an event of any kind, whichever
\* component is active.
C29_OuterWins ==
    (last_render # None /\ pc # "idle")
    => \A d \in InnerComponents : BucketLen(events_out, d) = 0

\* A step of Gui::draw: the only operation that starts and ends outside
\* handle_events.
IsDrawStep == pc = "idle" /\ pc' = "idle"

\* C30: Gui::draw replaces the stored tree and rect map by those of its
\* call and leaves the active component as it is; no step of
\* Gui::handle_events, and no use of its result, changes the stored tree or
\* rect map, so every call between two draws tests against the same
\* rectangles.
C30_OwnOperationOnly ==
    [][/\ IsDrawStep
          => /\ active_component' = active_component
             /\ last_render' = Some([widget |-> drawn'[1].widget,
                                     widget_rects |-> drawn'[1].widget_rects])
       /\ ~IsDrawStep => (last_render' = last_render /\ drawn' = drawn)]_vars

\* Over the form as drawn: a call found button 1 active from an earlier
\* call and two Tabs moved the focus to button 3, the stored tree and rect
\* map still being those of the draw.
C30_Witness ==
    /\ pc = "returned"
    /\ Len(history) = 2
    /\ history[1].active_component = Some(<<0, 1>>)
    /\ active_component = Some(<<2, 3>>)
    /\ drawn # None /\ drawn[1].widget = SceneForm.widget
    /\ last_render = Some([widget |-> drawn[1].widget,
                           widget_rects |-> drawn[1].widget_rects])

\* C31: a call of fill_poly with fewer than 3 vertices, or of
\* draw_line_strip with fewer than 2, panics and leaves the mesh builder
\* as it found it: no vertex and no triangle has been queued.
C31_DegenerateRejected ==
    draw_2d_call # None
    => LET call == draw_2d_call[1] IN
       (\/ call.op = "fill_poly" /\ Len(call.verts) < 3
        \/ call.op = "draw_line_strip" /\ Len(call.verts) < 2)
       => (call.panic /\ triangle_mesh_builder = call.found)

\* A triangle is queued, then fill_poly is called with two vertices.
C31_Witness ==
    /\ draw_2d_call # None
    /\ draw_2d_call[1].op = "fill_poly"
    /\ Len(draw_2d_call[1].verts) = 2
    /\ draw_2d_call[1].panic
    /\ Len(triangle_mesh_builder.verts) = 3
    /\ Len(triangle_mesh_builder.indices) = 1

C33_TabWithoutFocus ==
    (Stepped /\ is_tab(Last.event) /\ Last.active_component = None)
    => /\ pc # "panicked"
       /\ active_component = None
       /\ events_out = Last.events_out
       /\ unhandled_events = Append(Last.unhandled_events, Last.event)

\* Shift+Tab over the form and a list of three components, none active.
C33_Witness ==
    /\ pc = "loop"
    /\ Stepped
    /\ Last.event = KeyDown(ShiftTab)
    /\ Last.active_component = None
    /\ ordered_components = <<1, 2, 3>>
    /\ last_render[1].widget = SceneForm.widget
    /\ unhandled_events = <<KeyDown(ShiftTab)>>

\* The components of the stored tree, in pre-order, that take the event of
\* the latest iteration: the active one for a key event, those whose
\* rectangle contains the position for a mouse event, every one for a
\* broadcast event.
Accepting ==
    LET Takes(w) == component_event(Last.event, StoredRect(w),
                                    Last.active_component_id = Some(w.id)) # None
    IN  SelectSeq(StoredComponents, Takes)

\* The number of events in the buckets.
TotalBucketed ==
    LET components == StoredComponents IN
    SumInts([i \in DOMAIN components |-> BucketLen(events_out, components[i].id)])

\* C34: an iteration of handle_events appends its event to at most one
\* bucket, that of the first component in pre-order that takes it, and
\* only once; the buckets never hold more events than the batch had.
C34_OneRecipient ==
    last_render # None
    => LET components == StoredComponents
           accepting == Accepting
           recipients == Recipients
       IN  /\ DOMAIN events_out \subseteq {components[i].id : i \in DOMAIN components}
           /\ TotalBucketed <= Len(events)
           /\ Stepped
              => /\ Cardinality(recipients) <= 1
                 /\ \A w \in recipients :
                       Len(events_out[w]) = BucketLen(Last.events_out, w) + 1
                 /\ \A w \in DOMAIN Last.events_out :
                       BucketLen(events_out, w) >= Len(Last.events_out[w])
                 /\ recipients = IF accepting = <<>> THEN {} ELSE {accepting[1].id}

\* A click inside both buttons of the overlap: both take it, the first
\* receives it.
C34_Witness ==
    /\ pc = "loop"
    /\ Stepped
    /\ last_render[1].widget = SceneOverlap.widget
    /\ Last.event = MouseDown("Left", PointIn1)
    /\ Len(Accepting) = 2
    /\ Recipients = {1}
    /\ Len(events) = 2
    /\ TotalBucketed = 2

\* C35: a Left MouseDown routed to a component that is not in the
\* ordered_components of the call and is not the session's active
\* component panics: the call returns no result, and the iteration leaves
\* the session's active component as it found it.
C35_UnlistedClickFatal ==
    (Stepped /\ IsLeftDown(Last.event) /\ Hits(Last.event.pos) # <<>>)
    => LET clicked == Hits(Last.event.pos)[1].id IN
       (~InList(clicked, ordered_components)
           /\ ActiveId(Last.active_component) # Some(clicked))
       => /\ pc = "panicked"
          /\ result = None
          /\ active_component = Last.active_component

\* The running or finished call was given an empty ordered_components and
\* found a component active.
EmptyListCall ==
    /\ Stepped
    /\ ordered_components = <<>>
    /\ history[1].active_component # None

TabInBatch == \E i \in DOMAIN history : is_tab(history[i].event)

\* Iteration i was a left click routed to a component other than the one
\* active when the call began.
ClickElsewhere(i) ==
    /\ IsLeftDown(history[i].event)
    /\ Hits(history[i].event.pos) # <<>>
    /\ Some(Hits(history[i].event.pos)[1].id) # ActiveId(history[1].active_component)

\* C36 as stated: over an empty list, with a component active from an
\* earlier call, a batch with a Tab or Shift+Tab KeyDown panics, and a
\* batch without one returns with the active component unchanged.
C36_TabOverEmptyList ==
    EmptyListCall
    => /\ TabInBatch => pc = "panicked"
       /\ ~TabInBatch
          => (pc # "panicked" /\ active_component = history[1].active_component)

\* C36, amended: a batch without a Tab returns with the active component
\* unchanged provided it has no left click routed to a component other than
\* the active one; such a click panics too.
C36_TabOverEmptyList_Amended ==
    EmptyListCall
    => /\ TabInBatch => pc = "panicked"
       /\ (~TabInBatch /\ \A i \in DOMAIN history : ~ClickElsewhere(i))
          => (pc # "panicked" /\ active_component = history[1].active_component)
       /\ (\E i \in DOMAIN history : ClickElsewhere(i)) => pc = "panicked"

\* Button 1 is active from an earlier call; the batch is a key, then
\* Shift+Tab, over the empty list: the call has panicked.
C36_Witness ==
    /\ ordered_components = <<>>
    /\ Len(history) = 2
    /\ history[1].active_component = Some(<<0, 1>>)
    /\ history[1].event = KeyDown(KeyA)
    /\ history[2].event = KeyDown(ShiftTab)
    /\ pc = "panicked"
    /\ active_component = Some(<<0, 1>>)

\* The events of the calls of App::handle_event, and the events vectors of
\* the calls of App::render_frame joined, each in the order of the calls.
RECURSIVE EventsOf(_, _, _)
EventsOf(op, calls, i) ==
    IF i > Len(calls) THEN <<>>
    ELSE (IF calls[i].op = op THEN calls[i].events ELSE <<>>) \o EventsOf(op, calls, i + 1)

\* The handle_event calls between the render_frame call before call i (or
\* the start) and call i.
RECURSIVE SinceFrame(_)
SinceFrame(i) ==
    IF i = 1 \/ app_calls[i - 1].op = "render_frame" THEN <<>>
    ELSE SinceFrame(i - 1) \o app_calls[i - 1].events

\* C37: every event a listener was called with has been handed to
\* App::handle_event once, in order of arrival; every render_frame call got
\* exactly the events that arrived since the call before it, in that order;
\* so the frames' vectors followed by the queue are the arrivals, and the
\* queue is empty right after a frame.
C37_EventQueue ==
    /\ EventsOf("handle_event", app_calls, 1) = arrivals
    /\ EventsOf("render_frame", app_calls, 1) \o queued_events = arrivals
    /\ \A i \in DOMAIN app_calls :
          /\ app_calls[i].op = "handle_event" => Len(app_calls[i].events) = 1
          /\ app_calls[i].op = "render_frame" => app_calls[i].events = SinceFrame(i)
    /\ (app_calls # <<>> /\ app_calls[Len(app_calls)].op = "render_frame")
       => queued_events = <<>>

\* Two events, a frame that gets both, and one more event waiting.
C37_Witness ==
    /\ Len(app_calls) = 4
    /\ app_calls[3].op = "render_frame"
    /\ Len(app_calls[3].events) = 2
    /\ app_calls[3].events[1] # app_calls[3].events[2]
    /\ app_calls[4].op = "handle_event"
    /\ Len(queued_events) = 1

\* After the first n arrivals: the key codes with a KeyDown not followed by
\* a KeyUp of the code or a FocusLost, the buttons with a MouseDown not
\* followed by a MouseUp of the button, a MouseLeave or a FocusLost, and
\* whether the last of the pointer lock events was PointerLocked.
HeldKeys(n) ==
    {arrivals[i].key.code :
        i \in {k \in 1 .. n :
                 /\ arrivals[k].type = "KeyDown"
                 /\ \A j \in (k + 1) .. n :
                       /\ arrivals[j].type # "FocusLost"
                       /\ ~(arrivals[j].type = "KeyUp"
                              /\ arrivals[j].key.code = arrivals[k].key.code)}}
HeldButtons(n) ==
    {arrivals[i].button :
        i \in {k \in 1 .. n :
                 /\ arrivals[k].type = "MouseDown"
                 /\ \A j \in (k + 1) .. n :
                       /\ arrivals[j].type \notin {"FocusLost", "MouseLeave"}
                       /\ ~(arrivals[j].type = "MouseUp"
                              /\ arrivals[j].button = arrivals[k].button)}}
PointerLockEvents(n) ==
    {k \in 1 .. n : arrivals[k].type \in {"PointerLocked", "PointerUnlocked"}}
LockedAfter(n) ==
    /\ PointerLockEvents(n) # {}
    /\ arrivals[SetMax(PointerLockEvents(n))].type = "PointerLocked"

Tracks(state, n) ==
    /\ state.pressed_keys = HeldKeys(n)
    /\ state.pressed_mouse_buttons = HeldButtons(n)
    /\ state.pointer_locked = LockedAfter(n)

\* C38: the EventState tracks the arrivals, and the application's callback
\* for the n-th event is called under the EventState that tracks the first
\* n arrivals: the update comes before the callback.
C38_EventStateTracking ==
    /\ Tracks(event_state, Len(arrivals))
    /\ \A i \in DOMAIN app_calls :
          app_calls[i].op = "handle_event"
          => Tracks(app_calls[i].event_state,
                    Len(EventsOf("handle_event", SubSeq(app_calls, 1, i), 1)))

\* Two keys down, one of them up again, then the left button: one key and
\* one button are held.
C38_Witness ==
    /\ Len(arrivals) = 4
    /\ arrivals[1].type = "KeyDown" /\ arrivals[1].key.code = "KeyB"
    /\ arrivals[2].type = "KeyDown" /\ arrivals[2].key.code = "KeyA"
    /\ arrivals[3].type = "KeyUp"
    /\ arrivals[4].type = "MouseDown"
    /\ event_state.pressed_keys = {"KeyB"}
    /\ event_state.pressed_mouse_buttons = {"Left"}
    /\ app_calls[2].event_state.pressed_keys = {"KeyA", "KeyB"}

\* C39: a MessageBox created with max_lines = m holds, after n calls of
\* add_line, the last min(m, n) of the lines added, in the order they were
\* added: at most m lines, and none when m = 0.
C39_BoundedFifo ==
    message_box # None
    => LET m == message_box[1].max_lines
           n == Len(added_lines)
           kept == IF m < n THEN m ELSE n
       IN  /\ Len(message_box[1].lines) <= m
           /\ message_box[1].lines = SubSeq(added_lines, n - kept + 1, n)

\* Four lines added to a box of two: the third and fourth are left.
C39_Witness ==
    /\ message_box # None
    /\ message_box[1].max_lines = 2
    /\ Len(added_lines) = 4
    /\ added_lines[3] # added_lines[4]
    /\ added_lines[2] # added_lines[4]
    /\ message_box[1].lines = <<added_lines[3], added_lines[4]>>

\* An event that presses a button: a MouseDown of the Left button, or a
\* KeyDown of "Enter" or " ".
Presses(event) ==
    \/ event.type = "MouseDown" /\ event.button = "Left"
    \/ event.type = "KeyDown" /\ event.key.key \in {"Enter", " "}

\* C40: Button::update returns pressed exactly when one of its events
\* presses, and returns the same for the events up to the first that
\* presses as for the whole list.
C40_ButtonPressed ==
    button_result # None
    => LET events_ == button_result[1].events
           pressing == {i \in DOMAIN events_ : Presses(events_[i])}
       IN  /\ button_result[1].pressed = (pressing # {})
           /\ \A i \in pressing :
                 button_update(SubSeq(events_, 1, i), 1) = button_result[1].pressed

\* A right click does not press; the "Enter" after it does.
C40_Witness ==
    /\ button_result # None
    /\ button_result[1].events = <<MouseDown("Right", <<0, 0>>), KeyDown(Key("Enter", FALSE))>>
    /\ button_result[1].pressed


=============================================================================
